---- MODULE Spec2Model ----
(***************************************************************************)
(* Telbooru: a chat bot that searches a booru-style image board, pages     *)
(* through the results and keeps per-user search preferences.              *)
(*                                                                         *)
(* The repository holds two implementations of the same bot: the inline    *)
(* one (main.py) and the repository-pattern one (main_refactored.py with   *)
(* repositories/ and services/).  The variable impl fixes which of the two *)
(* a behaviour runs; the handlers of both are modelled side by side.       *)
(*                                                                         *)
(* Strings are sequences of one-character strings, so that join() and      *)
(* strip() are computed and not assumed.  Posts are opaque records of the  *)
(* upstream, modelled by their id.  The chat transport (message delivery,  *)
(* keyboards) is an external collaborator: its calls succeed, and what a   *)
(* handler shows the user is recorded in the variable out.                 *)
(***************************************************************************)
EXTENDS Integers, Sequences, FiniteSets, TLC

VARIABLES
    impl,           \* "main" (main.py) or "refactored" (main_refactored.py)
    search_states,  \* TelbooruBot.search_states / SearchRepository._states
    user_states,    \* TelbooruBot.user_states
    user_files,     \* user_data/user_<id>.pkl, one per user
    out,            \* what the last handler did towards the user and upstream
    call,           \* the arguments of a function called on its own
    returned,       \* what that call returned, None while it is pending
    tasks,          \* the handlers in flight, each at one of its awaits
    keyboards       \* per user, the buttons sent since their session began

vars ==
    <<impl, search_states, user_states, user_files, out, call, returned, tasks,
      keyboards>>

\* ------------------------------------------------------------------------
\* Bounds
\* ------------------------------------------------------------------------
MaxPosts == 6
MaxPageArg == 1
MaxIndexArg == 2

\* ------------------------------------------------------------------------
\* Program constants
\* ------------------------------------------------------------------------
PostsPerPage == 5
SearchLimit == 50
MaxLimit == 100

\* User ids, and the users whose updates Spec serves
Users == {1, 2}
Actors == {1}

\* Optional[T]: None is the empty sequence, a value x is <<x>>
None == <<>>
Some(x) == <<x>>

\* A Python dict keyed by user id is a function on the set of its keys
EmptyDict == [k \in {} |-> None]
\* Variant: one slot shared by every key
DictSet_shared(d, key, value) == [k \in DOMAIN d \cup {key} |-> value]

DictSet(d, key, value) == [k \in DOMAIN d \cup {key} |-> IF k = key THEN value ELSE d[k]]
DictPop(d, key) == [k \in DOMAIN d \ {key} |-> d[k]]

\* ------------------------------------------------------------------------
\* Python string and list primitives
\* ------------------------------------------------------------------------
SP == " "

Min(a, b) == IF a <= b THEN a ELSE b
Max(a, b) == IF a >= b THEN a ELSE b

\* str.lstrip() / str.rstrip() / str.strip() for the whitespace character
RECURSIVE lstrip(_)
lstrip(s) == IF s # <<>> /\ Head(s) = SP THEN lstrip(Tail(s)) ELSE s

RECURSIVE rstrip(_)
rstrip(s) ==
    IF s # <<>> /\ s[Len(s)] = SP THEN rstrip(SubSeq(s, 1, Len(s) - 1)) ELSE s

strip(s) == rstrip(lstrip(s))

\* " ".join(parts)
RECURSIVE join(_)
join(parts) ==
    IF parts = <<>> THEN <<>>
    ELSE IF Len(parts) = 1 THEN parts[1]
    ELSE parts[1] \o <<SP>> \o join(Tail(parts))

\* seq[start:stop] for a Python list, with Python's treatment of negative
\* and out-of-range bounds
PyClamp(i, n) == IF i < 0 THEN Max(i + n, 0) ELSE Min(i, n)
PySlice(s, start, stop) ==
    LET a == PyClamp(start, Len(s))
        b == PyClamp(stop, Len(s))
    IN  IF a >= b THEN <<>> ELSE SubSeq(s, a + 1, b)

\* seq[i] for a Python list: negative indices count from the end, anything
\* outside [-len, len-1] raises IndexError
PyIndexRaises(s, i) == i >= Len(s) \/ i < 0 - Len(s)
PyIndex(s, i) == IF i >= 0 THEN s[i + 1] ELSE s[Len(s) + i + 1]

\* x in list
InList(x, s) == \E k \in 1..Len(s) : s[k] = x

\* list.pop(index) for 0 <= index < len
PyPop(s, i) == SubSeq(s, 1, i) \o SubSeq(s, i + 2, Len(s))

\* ------------------------------------------------------------------------
\* Data model
\* ------------------------------------------------------------------------

\* @dataclass UserSettings: auto_tags is a list, toggle_rules a dict.  A
\* Python dict keeps insertion order, so it is a sequence of entries with
\* distinct keys.
UserSettings == [auto_tags |-> <<>>, toggle_rules |-> <<>>]

\* dict.get(key, default)
dict_get(d, key, default) ==
    IF \E k \in 1..Len(d) : d[k].rule = key
    THEN (d[CHOOSE k \in 1..Len(d) : d[k].rule = key]).enabled
    ELSE default

\* d[key] = value: an existing key keeps its position, a new one goes last
dict_set(d, key, value) ==
    IF \E k \in 1..Len(d) : d[k].rule = key
    THEN [k \in 1..Len(d) |->
            IF d[k].rule = key THEN [rule |-> key, enabled |-> value] ELSE d[k]]
    ELSE Append(d, [rule |-> key, enabled |-> value])

\* [rule for rule, enabled in toggle_rules.items() if enabled]
RECURSIVE enabled_toggles(_)
enabled_toggles(d) ==
    IF d = <<>> THEN <<>>
    ELSE (IF d[1].enabled THEN <<d[1].rule>> ELSE <<>>)
         \o enabled_toggles(Tail(d))

\* @dataclass SearchState, as the search handlers construct it
SearchState(query, results, current_page, total_pages) ==
    [query |-> query,
     results |-> results,
     current_page |-> current_page,
     total_pages |-> total_pages,
     posts_per_page |-> PostsPerPage,
     last_menu_message_id |-> None]

\* Variant: the page count taken as len // 5 + 1
TotalPagesOf_floor(posts) == (Len(posts) \div 5) + 1

\* total_pages=(len(posts) - 1) // 5 + 1
TotalPagesOf(posts) == ((Len(posts) - 1) \div 5) + 1

\* ------------------------------------------------------------------------
\* Settings files (UserDataManager / UserRepository): files maps the users
\* whose file user_<id>.pkl exists to what the file holds
\* ------------------------------------------------------------------------

\* What a write of the settings file comes to: "ok"; "denied", open() fails
\* and the file is as it was; "torn", the file is truncated by open() and
\* the dump fails part-way
DiskOutcomes == {"ok", "denied", "torn"}

\* A file that pickle.dump wrote to the end, and one it left part-way
\* through settings: pickle.load gives the settings back from the first and
\* raises on the second
Pickled(settings) == [readable |-> TRUE, settings |-> settings]
Torn(settings) == [readable |-> FALSE, settings |-> settings]

\* The files after an attempt to write settings with outcome disk
WriteFile(files, user_id, settings, disk) ==
    CASE disk = "ok" -> DictSet(files, user_id, Pickled(settings))
      [] disk = "denied" -> files
      [] OTHER -> DictSet(files, user_id, Torn(settings))

\* Variant: what the file holds is handed back without the except clause
load_user_settings_uncaught(files, user_id) ==
    IF user_id \notin DOMAIN files THEN UserSettings
    ELSE files[user_id].settings

\* UserDataManager.load_user_settings: a file that is missing, or whose
\* load raises, is answered with UserSettings()
load_user_settings(files, user_id) ==
    IF user_id \notin DOMAIN files THEN UserSettings
    ELSE IF files[user_id].readable THEN files[user_id].settings
    ELSE UserSettings

\* UserDataManager.save_user_settings: a failed write is logged, not raised
save_user_settings(files, user_id, settings, disk) ==
    WriteFile(files, user_id, settings, disk)

\* UserRepository.get_user_settings
get_user_settings(files, user_id) ==
    IF user_id \notin DOMAIN files THEN UserSettings
    ELSE IF files[user_id].readable THEN files[user_id].settings
    ELSE UserSettings

\* UserRepository.save_user_settings: a failed write raises
\* RepositoryDataException
repo_save_user_settings(files, user_id, settings, disk) ==
    [files |-> WriteFile(files, user_id, settings, disk),
     raised |-> disk # "ok"]

\* Variant: the tag is appended without looking for it first
add_auto_tag_unchecked(files, user_id, tag, disk) ==
    LET settings == get_user_settings(files, user_id)
        saved == repo_save_user_settings(files, user_id,
                    [settings EXCEPT !.auto_tags = Append(@, tag)], disk)
    IN  [files |-> saved.files, ret |-> TRUE, raised |-> saved.raised,
         wrote |-> TRUE]

\* Variant: the new tag is put first
add_auto_tag_front(files, user_id, tag, disk) ==
    LET settings == get_user_settings(files, user_id)
        saved == repo_save_user_settings(files, user_id,
                    [settings EXCEPT !.auto_tags = <<tag>> \o @], disk)
    IN  IF InList(tag, settings.auto_tags)
        THEN [files |-> files, ret |-> FALSE, raised |-> FALSE,
              wrote |-> FALSE]
        ELSE [files |-> saved.files, ret |-> TRUE, raised |-> saved.raised,
              wrote |-> TRUE]

\* UserService.add_auto_tag: the files afterwards, the value returned,
\* whether it raised instead, and whether a write was attempted
add_auto_tag(files, user_id, tag, disk) ==
    LET settings == get_user_settings(files, user_id)
        saved == repo_save_user_settings(files, user_id,
                    [settings EXCEPT !.auto_tags = Append(@, tag)], disk)
    IN  IF InList(tag, settings.auto_tags)
        THEN [files |-> files, ret |-> FALSE, raised |-> FALSE,
              wrote |-> FALSE]
        ELSE [files |-> saved.files, ret |-> TRUE, raised |-> saved.raised,
              wrote |-> TRUE]

\* UserService.remove_auto_tag_by_index
remove_auto_tag_by_index(files, user_id, index, disk) ==
    LET settings == get_user_settings(files, user_id)
        saved == repo_save_user_settings(files, user_id,
                    [settings EXCEPT !.auto_tags = PyPop(@, index)], disk)
    IN  IF index < 0 \/ index >= Len(settings.auto_tags)
        THEN [files |-> files, ret |-> FALSE, raised |-> FALSE,
              wrote |-> FALSE]
        ELSE [files |-> saved.files, ret |-> TRUE, raised |-> saved.raised,
              wrote |-> TRUE]

\* UserService.clear_auto_tags: ret is the number of tags cleared
clear_auto_tags(files, user_id, disk) ==
    LET settings == get_user_settings(files, user_id)
        saved == repo_save_user_settings(files, user_id,
                    [settings EXCEPT !.auto_tags = <<>>], disk)
    IN  [files |-> saved.files, ret |-> Len(settings.auto_tags),
         raised |-> saved.raised, wrote |-> TRUE]

\* Variant: the state before the toggle is returned
toggle_rule_stale(files, user_id, rule, disk) ==
    LET settings == get_user_settings(files, user_id)
        current_state == dict_get(settings.toggle_rules, rule, FALSE)
        new_state == ~current_state
        saved == repo_save_user_settings(files, user_id,
                    [settings EXCEPT
                        !.toggle_rules = dict_set(@, rule, new_state)], disk)
    IN  [files |-> saved.files, ret |-> current_state,
         raised |-> saved.raised, wrote |-> TRUE]

\* UserService.toggle_rule
toggle_rule(files, user_id, rule, disk) ==
    LET settings == get_user_settings(files, user_id)
        current_state == dict_get(settings.toggle_rules, rule, FALSE)
        new_state == ~current_state
        saved == repo_save_user_settings(files, user_id,
                    [settings EXCEPT
                        !.toggle_rules = dict_set(@, rule, new_state)], disk)
    IN  [files |-> saved.files, ret |-> new_state, raised |-> saved.raised,
         wrote |-> TRUE]

\* UserService.set_rule
set_rule(files, user_id, rule, enabled, disk) ==
    LET settings == get_user_settings(files, user_id)
        saved == repo_save_user_settings(files, user_id,
                    [settings EXCEPT
                        !.toggle_rules = dict_set(@, rule, enabled)], disk)
    IN  [files |-> saved.files, raised |-> saved.raised]

\* UserService.clear_rules: ret is the number of rules cleared
clear_rules(files, user_id, disk) ==
    LET settings == get_user_settings(files, user_id)
        saved == repo_save_user_settings(files, user_id,
                    [settings EXCEPT !.toggle_rules = <<>>], disk)
    IN  [files |-> saved.files, ret |-> Len(settings.toggle_rules),
         raised |-> saved.raised]

\* UserService.reset_user
reset_user(files, user_id, disk) ==
    LET saved == repo_save_user_settings(files, user_id, UserSettings, disk)
    IN  [files |-> saved.files, raised |-> saved.raised]

\* What os.remove of a settings file comes to
RemoveOutcomes == {"ok", "denied"}

\* UserRepository.user_exists
user_exists(files, user_id) == user_id \in DOMAIN files

\* Variant: the removal is reported whether or not there was a file
delete_user_settings_blind(files, user_id, disk) ==
    IF user_id \notin DOMAIN files
    THEN [files |-> files, ret |-> TRUE, raised |-> FALSE]
    ELSE IF disk = "ok"
    THEN [files |-> DictPop(files, user_id), ret |-> TRUE, raised |-> FALSE]
    ELSE [files |-> files, ret |-> FALSE, raised |-> TRUE]

\* UserRepository.delete_user_settings: False without a file, True once
\* os.remove went through, RepositoryDataException when it failed
delete_user_settings(files, user_id, disk) ==
    IF user_id \notin DOMAIN files
    THEN [files |-> files, ret |-> FALSE, raised |-> FALSE]
    ELSE IF disk = "ok"
    THEN [files |-> DictPop(files, user_id), ret |-> TRUE, raised |-> FALSE]
    ELSE [files |-> files, ret |-> FALSE, raised |-> TRUE]

\* UserService.delete_user
delete_user(files, user_id, disk) == delete_user_settings(files, user_id, disk)

\* ------------------------------------------------------------------------
\* Query composition
\* ------------------------------------------------------------------------

\* f"{tags} {extra}" if tags else extra
AppendTags(tags, extra) ==
    IF tags # <<>> THEN tags \o <<SP>> \o extra ELSE extra

\* Variant: every toggle rule is appended, enabled or not
apply_user_preferences_all(tags, user_settings) ==
    LET t1 == IF user_settings.auto_tags # <<>>
              THEN AppendTags(tags, join(user_settings.auto_tags))
              ELSE tags
        toggles == [k \in 1..Len(user_settings.toggle_rules) |->
                        user_settings.toggle_rules[k].rule]
        t2 == IF toggles # <<>> THEN AppendTags(t1, join(toggles)) ELSE t1
    IN  strip(t2)

\* BooruService._apply_user_preferences
apply_user_preferences(tags, user_settings) ==
    LET t1 == IF user_settings.auto_tags # <<>>
              THEN AppendTags(tags, join(user_settings.auto_tags))
              ELSE tags
        toggles == enabled_toggles(user_settings.toggle_rules)
        t2 == IF toggles # <<>> THEN AppendTags(t1, join(toggles)) ELSE t1
    IN  strip(t2)

\* main.py, perform_batch_search / perform_batch_search_callback: the same
\* composition written inline, without the final strip()
inline_apply_preferences(tags, settings) ==
    LET t1 == IF settings.auto_tags # <<>>
              THEN AppendTags(tags, join(settings.auto_tags))
              ELSE tags
        toggles == enabled_toggles(settings.toggle_rules)
    IN  IF toggles # <<>> THEN AppendTags(t1, join(toggles)) ELSE t1

\* ------------------------------------------------------------------------
\* Upstream replies (JSON bodies and request failures)
\* ------------------------------------------------------------------------

\* The value under a key of a JSON object: a list of posts or one post object
ListVal(items) == [k |-> "list", items |-> items]
ObjVal(post) == [k |-> "obj", items |-> <<post>>]

\* A decoded JSON body.  t is "null", "list", "dict" or "scalar"; a dict has
\* an optional 'post' entry, an optional 'posts' entry and possibly others.
JNull == [t |-> "null", items |-> <<>>, post |-> None, posts |-> None,
          other |-> FALSE]
JList(items) == [t |-> "list", items |-> items, post |-> None, posts |-> None,
                 other |-> FALSE]
JScalar == [t |-> "scalar", items |-> <<>>, post |-> None, posts |-> None,
            other |-> FALSE]
JDict(post, posts, other) ==
    [t |-> "dict", items |-> <<>>, post |-> post, posts |-> posts,
     other |-> other]

\* {'post': []}
EmptyPostDict == JDict(Some(ListVal(<<>>)), None, FALSE)

\* bool(value) for a decoded body (the scalar is a non-zero number)
Truthy(j) ==
    CASE j.t = "null" -> FALSE
      [] j.t = "list" -> j.items # <<>>
      [] j.t = "dict" -> j.post # None \/ j.posts # None \/ j.other
      [] OTHER -> TRUE

\* bool(value) for the value under a key
ValTruthy(v) == v.k = "obj" \/ v.items # <<>>

\* What one HTTP request comes to: a decoded body, or an exception of
\* aiohttp ("conn": ClientConnectionError, "http": ClientResponseError from
\* raise_for_status, "other": anything else, e.g. a timeout)
Reply(body) == [ok |-> TRUE, body |-> body, err |-> "none"]
Failure(err) == [ok |-> FALSE, body |-> JNull, err |-> err]

\* The query parameters of one request
PrimaryParams(limit, pid, tags) ==
    [page |-> "dapi", s |-> "post", q |-> Some("index"),
     limit |-> Min(limit, MaxLimit), pid |-> pid,
     tags |-> IF tags # <<>> THEN Some(tags) ELSE None]

AltParams(limit, pid, tags) ==
    [page |-> "post", s |-> "list", q |-> None,
     limit |-> Min(limit, MaxLimit), pid |-> pid,
     tags |-> IF tags # <<>> THEN Some(tags) ELSE None]

\* The normalisation of a successful primary reply, the same in
\* BooruAPIWrapper.get_posts and BooruRepository.get_posts
NormalizePosts(result) ==
    IF result.t = "null" THEN EmptyPostDict
    ELSE IF result.t = "list" THEN JDict(Some(ListVal(result.items)), None, FALSE)
    ELSE IF result.t # "dict" THEN EmptyPostDict
    ELSE IF result.post = None /\ result.posts # None
         THEN [result EXCEPT !.post = result.posts]
    ELSE result

\* Variant: the alternative format is tried before the primary one
get_posts_alt_first(limit, pid, tags, o1, o2) ==
    IF o1.ok
    THEN [requests |-> <<PrimaryParams(limit, pid, tags)>>,
          result |-> NormalizePosts(o1.body)]
    ELSE [requests |-> <<AltParams(limit, pid, tags),
                         PrimaryParams(limit, pid, tags)>>,
          result |-> IF o2.ok /\ Truthy(o2.body) THEN o2.body
                     ELSE EmptyPostDict]

\* Variant: a primary reply without posts is retried in the other format
get_posts_on_empty(limit, pid, tags, o1, o2) ==
    IF o1.ok /\ NormalizePosts(o1.body).post # None
             /\ ValTruthy(NormalizePosts(o1.body).post[1])
    THEN [requests |-> <<PrimaryParams(limit, pid, tags)>>,
          result |-> NormalizePosts(o1.body)]
    ELSE [requests |-> <<PrimaryParams(limit, pid, tags),
                         AltParams(limit, pid, tags)>>,
          result |-> IF o2.ok /\ Truthy(o2.body) THEN o2.body
                     ELSE EmptyPostDict]

\* BooruAPIWrapper.get_posts (main.py): o1 is what the primary request comes
\* to, o2 what the fallback request comes to if it is made
get_posts(limit, pid, tags, o1, o2) ==
    IF o1.ok
    THEN [requests |-> <<PrimaryParams(limit, pid, tags)>>,
          result |-> NormalizePosts(o1.body)]
    ELSE [requests |-> <<PrimaryParams(limit, pid, tags),
                         AltParams(limit, pid, tags)>>,
          result |-> IF o2.ok /\ Truthy(o2.body) THEN o2.body
                     ELSE EmptyPostDict]

\* BooruRepository.get_posts: no fallback, a failed request is raised
repo_get_posts(criteria, o1) ==
    IF o1.ok
    THEN [requests |-> <<PrimaryParams(criteria.limit, criteria.page,
                                        criteria.tags)>>,
          raised |-> FALSE,
          result |-> NormalizePosts(o1.body)]
    ELSE [requests |-> <<PrimaryParams(criteria.limit, criteria.page,
                                        criteria.tags)>>,
          raised |-> TRUE,
          result |-> JNull]

\* BooruService.search_posts
search_posts(tags, limit, page, o1) ==
    LET r == repo_get_posts([tags |-> tags, limit |-> limit, page |-> page], o1)
        posts == IF r.result.post = None THEN <<>>
                 ELSE (r.result.post[1]).items
    IN  [requests |-> r.requests,
         raised |-> r.raised,
         posts |-> IF r.raised THEN <<>> ELSE posts]

\* BooruService.search_posts_with_preferences
search_posts_with_preferences(tags, user_settings, limit, o1) ==
    search_posts(apply_user_preferences(tags, user_settings), limit, 0, o1)

\* ------------------------------------------------------------------------
\* Handlers.  A handler is an operator from the bot's state st (a record of
\* the variables) to the state it leaves; the actions below apply them.
\* ------------------------------------------------------------------------
State ==
    [search_states |-> search_states, user_states |-> user_states,
     user_files |-> user_files, out |-> out, disk |-> "ok"]

\* The same, with the write of a settings file coming to disk
StateOn(disk) == [State EXCEPT !.disk = disk]

\* What a handler did: the update it served (event, user, arg), what it
\* showed (result, page, posts, post, ret), the tags it was asked to search
\* (text), the requests it sent upstream and what each of them came to, and
\* whether the settings file it wrote was saved (None when it wrote none),
\* and the inline keyboard it sent with a page of results
NoOut(event, user, arg) ==
    [event |-> event, user |-> user, arg |-> arg, result |-> "none",
     page |-> 0, posts |-> <<>>, post |-> None, ret |-> None,
     text |-> <<>>, requests |-> <<>>, upstream |-> <<>>, saved |-> None,
     keyboard |-> <<>>]

Begin(st, event, user, arg) == [st EXCEPT !.out = NoOut(event, user, arg)]

WAITING_FOR_AUTOTAG == "WAITING_FOR_AUTOTAG"

\* Variant: the slice stops one post early
PageSlice_short(search_state, page) ==
    LET start_idx == page * search_state.posts_per_page
        end_idx == Min(start_idx + search_state.posts_per_page,
                       Len(search_state.results))
    IN  PySlice(search_state.results, start_idx, end_idx - 1)

\* page_posts = search_state.results[start_idx:end_idx]
PageSlice(search_state, page) ==
    LET start_idx == page * search_state.posts_per_page
        end_idx == Min(start_idx + search_state.posts_per_page,
                       Len(search_state.results))
    IN  PySlice(search_state.results, start_idx, end_idx)

\* Callback data: kind is the prefix the dispatcher tests, n the integer
\* parsed from the data, rule the rule string decoded from it
Data(kind, n, rule) == [kind |-> kind, n |-> n, rule |-> rule]

\* Variant: "Next" is offered on the last page too
selection_keyboard_open(search_state, page) ==
    LET start_idx == page * search_state.posts_per_page
        page_posts == PageSlice(search_state, page)
        post_buttons == [i \in 1..Len(page_posts) |->
                            Data("post", start_idx + (i - 1), <<>>)]
        previous == IF page > 0
                    THEN <<Data("search_page", page - 1, <<>>)>> ELSE <<>>
        next == IF page < search_state.total_pages
                THEN <<Data("search_page", page + 1, <<>>)>> ELSE <<>>
    IN  post_buttons \o previous \o next \o <<Data("back_main", 0, <<>>)>>

\* keyboard / reply_markup of a page of results: a button "post_<i>" for
\* each post of the page, "Previous" and "Next" as "search_page_<p>", and
\* "Back to Main Menu"
selection_keyboard(search_state, page) ==
    LET start_idx == page * search_state.posts_per_page
        page_posts == PageSlice(search_state, page)
        post_buttons == [i \in 1..Len(page_posts) |->
                            Data("post", start_idx + (i - 1), <<>>)]
        previous == IF page > 0
                    THEN <<Data("search_page", page - 1, <<>>)>> ELSE <<>>
        next == IF page < search_state.total_pages - 1
                THEN <<Data("search_page", page + 1, <<>>)>> ELSE <<>>
    IN  post_buttons \o previous \o next \o <<Data("back_main", 0, <<>>)>>

\* ---- main.py ----------------------------------------------------------

\* TelbooruBot.send_search_results_page (main.py)
send_search_results_page(st, user_id, page, message_id) ==
    IF user_id \notin DOMAIN st.search_states
    THEN [st EXCEPT !.out.result = "no_active_search"]
    ELSE [st EXCEPT
            !.search_states[user_id].last_menu_message_id = Some(message_id),
            !.out.result = "page",
            !.out.page = page,
            !.out.posts = PageSlice(st.search_states[user_id], page),
            !.out.keyboard =
                selection_keyboard(st.search_states[user_id], page)]

\* TelbooruBot.send_search_results_page_callback (main.py)
send_search_results_page_callback(st, user_id, page, message_id) ==
    IF user_id \notin DOMAIN st.search_states
    THEN [st EXCEPT !.out.result = "no_active_search"]
    ELSE [st EXCEPT
            !.search_states[user_id].last_menu_message_id = Some(message_id),
            !.out.result = "page",
            !.out.page = page,
            !.out.posts = PageSlice(st.search_states[user_id], page),
            !.out.keyboard =
                selection_keyboard(st.search_states[user_id], page)]

\* Variant: an empty post list is not turned away
classify_response_unchecked(response) ==
    IF ~Truthy(response) THEN "no_response"
    ELSE IF response.t = "scalar" THEN "error"
    ELSE IF response.t = "list" \/ response.post = None THEN "invalid_format"
    ELSE "store"

\* The checks perform_batch_search makes on the response of get_posts before
\* it stores anything (main.py): what the user is told, or "store"
classify_response(response) ==
    IF ~Truthy(response) THEN "no_response"
    ELSE IF response.t = "scalar" THEN "error"
    ELSE IF response.t = "list" \/ response.post = None THEN "invalid_format"
    ELSE IF ~ValTruthy(response.post[1]) THEN "no_images"
    ELSE "store"

\* TelbooruBot.perform_batch_search (main.py)
perform_batch_search(st, tags0, user_id, o1, o2, message_id) ==
    LET settings == load_user_settings(st.user_files, user_id)
        tags == inline_apply_preferences(tags0, settings)
        api == get_posts(SearchLimit, 0, tags, o1, o2)
        verdict == classify_response(api.result)
        posts == (api.result.post[1]).items
        search_state == SearchState(tags, posts, 0, TotalPagesOf(posts))
        st1 == [st EXCEPT !.out.text = tags0,
                          !.out.requests = api.requests,
                          !.out.upstream =
                              SubSeq(<<o1, o2>>, 1, Len(api.requests))]
    IN  IF verdict # "store"
        THEN [st1 EXCEPT !.out.result = verdict]
        ELSE send_search_results_page(
                [st1 EXCEPT !.search_states =
                    DictSet(st.search_states, user_id, search_state)],
                user_id, 0, message_id)

\* TelbooruBot.perform_batch_search_callback (main.py)
perform_batch_search_callback(st, tags0, user_id, o1, o2, message_id) ==
    LET settings == load_user_settings(st.user_files, user_id)
        tags == inline_apply_preferences(tags0, settings)
        api == get_posts(SearchLimit, 0, tags, o1, o2)
        verdict == classify_response(api.result)
        posts == (api.result.post[1]).items
        search_state == SearchState(tags, posts, 0, TotalPagesOf(posts))
        st1 == [st EXCEPT !.out.text = tags0,
                          !.out.requests = api.requests,
                          !.out.upstream =
                              SubSeq(<<o1, o2>>, 1, Len(api.requests))]
    IN  IF verdict # "store"
        THEN [st1 EXCEPT !.out.result = verdict]
        ELSE send_search_results_page_callback(
                [st1 EXCEPT !.search_states =
                    DictSet(st.search_states, user_id, search_state)],
                user_id, 0, message_id)

\* TelbooruBot.process_autotag_addition (main.py)
process_autotag_addition(st, tag_text0, user_id) ==
    LET st1 == [st EXCEPT !.user_states = DictPop(@, user_id)]
        tag_text == strip(tag_text0)
        settings == load_user_settings(st.user_files, user_id)
    IN  IF tag_text = <<>> THEN [st1 EXCEPT !.out.result = "invalid_tag"]
        ELSE IF InList(tag_text, settings.auto_tags)
        THEN [st1 EXCEPT !.out.result = "duplicate"]
        ELSE [st1 EXCEPT
                !.user_files = save_user_settings(@, user_id,
                    [settings EXCEPT !.auto_tags = Append(@, tag_text)],
                    st.disk),
                !.out.saved = Some(st.disk = "ok"),
                !.out.result = "added"]

\* TelbooruBot.handle_text_input (main.py)
handle_text_input(st, user_id, message_text, o1, o2, message_id) ==
    LET text == strip(message_text)
        st1 == Begin(st, "text", user_id, 0)
    IN  IF user_id \in DOMAIN st.user_states
           /\ st.user_states[user_id] = WAITING_FOR_AUTOTAG
        THEN process_autotag_addition(st1, text, user_id)
        ELSE perform_batch_search(st1, text, user_id, o1, o2, message_id)

\* TelbooruBot.show_search_page (main.py)
show_search_page(st, user_id, page, message_id) ==
    LET st1 == IF user_id \in DOMAIN st.search_states
               THEN [st EXCEPT !.search_states[user_id].current_page = page]
               ELSE st
    IN  send_search_results_page_callback(st1, user_id, page, message_id)

\* TelbooruBot._resend_selection_menu (main.py)
resend_selection_menu(st, user_id, message_id) ==
    [st EXCEPT
        !.search_states[user_id].last_menu_message_id = Some(message_id),
        !.out.keyboard =
            selection_keyboard(st.search_states[user_id],
                               st.search_states[user_id].current_page)]

\* TelbooruBot.send_full_image (main.py)
send_full_image(st, user_id, post_index, message_id) ==
    IF user_id \notin DOMAIN st.search_states
       \/ post_index >= Len(st.search_states[user_id].results)
    THEN [st EXCEPT !.out.result = "not_found"]
    ELSE IF PyIndexRaises(st.search_states[user_id].results, post_index)
    THEN [st EXCEPT !.out.result = "raised"]
    ELSE resend_selection_menu(
            [st EXCEPT
                !.out.result = "media",
                !.out.post =
                    Some(PyIndex(st.search_states[user_id].results, post_index))],
            user_id, message_id)

\* TelbooruBot.handle_toggle_callback (main.py)
handle_toggle_callback(st, user_id, rule) ==
    LET settings == load_user_settings(st.user_files, user_id)
        current_state == dict_get(settings.toggle_rules, rule, FALSE)
    IN  [st EXCEPT
            !.user_files = save_user_settings(@, user_id,
                [settings EXCEPT
                    !.toggle_rules = dict_set(@, rule, ~current_state)],
                st.disk),
            !.out.saved = Some(st.disk = "ok"),
            !.out.result = "toggled",
            !.out.ret = Some(~current_state)]

\* TelbooruBot.handle_autotag_callback (main.py), data "autotag_remove_<i>"
handle_autotag_remove(st, user_id, index) ==
    LET settings == load_user_settings(st.user_files, user_id)
    IN  IF 0 <= index /\ index < Len(settings.auto_tags)
        THEN [st EXCEPT
                !.user_files = save_user_settings(@, user_id,
                    [settings EXCEPT !.auto_tags = PyPop(@, index)],
                    st.disk),
                !.out.saved = Some(st.disk = "ok"),
                !.out.result = "removed"]
        ELSE st

\* TelbooruBot.handle_autotag_callback (main.py), data "autotag_add"
handle_autotag_add(st, user_id) ==
    [st EXCEPT
        !.user_states = DictSet(@, user_id, WAITING_FOR_AUTOTAG),
        !.out.result = "prompt"]

\* ---- repositories/search_repository.py ----------------------------------

\* Variant: a state already stored keeps its page
save_search_state_merged(states, user_id, state) ==
    IF user_id \in DOMAIN states
    THEN DictSet(states, user_id,
                 [state EXCEPT !.current_page = states[user_id].current_page])
    ELSE DictSet(states, user_id, state)

\* SearchRepository.save_search_state
save_search_state(states, user_id, state) == DictSet(states, user_id, state)

\* SearchRepository.get_search_state
get_search_state(states, user_id) ==
    IF user_id \in DOMAIN states THEN Some(states[user_id]) ELSE None

\* Variant: a missing state is created
update_page_created(states, user_id, page) ==
    IF user_id \in DOMAIN states
    THEN [states |-> [states EXCEPT ![user_id].current_page = page],
          ret |-> TRUE]
    ELSE [states |-> DictSet(states, user_id, SearchState(<<>>, <<>>, page, 0)),
          ret |-> TRUE]

\* Variant: the results are dropped when the page is set
update_page_dropping(states, user_id, page) ==
    IF user_id \in DOMAIN states
    THEN [states |-> [states EXCEPT ![user_id].current_page = page,
                                    ![user_id].results = <<>>],
          ret |-> TRUE]
    ELSE [states |-> states, ret |-> FALSE]

\* SearchRepository.update_page: the states afterwards and the value returned
update_page(states, user_id, page) ==
    IF user_id \in DOMAIN states
    THEN [states |-> [states EXCEPT ![user_id].current_page = page],
          ret |-> TRUE]
    ELSE [states |-> states, ret |-> FALSE]

\* SearchRepository.update_menu_message_id
update_menu_message_id(states, user_id, message_id) ==
    IF user_id \in DOMAIN states
    THEN [states |-> [states EXCEPT
                        ![user_id].last_menu_message_id = Some(message_id)],
          ret |-> TRUE]
    ELSE [states |-> states, ret |-> FALSE]

\* ---- main_refactored.py --------------------------------------------------

\* TelbooruBot.send_search_results_page (main_refactored.py)
r_send_search_results_page(st, user_id, page, message_id) ==
    LET search_state == get_search_state(st.search_states, user_id)
    IN  IF search_state = None
        THEN [st EXCEPT !.out.result = "no_active_search"]
        ELSE [st EXCEPT
                !.search_states =
                    update_menu_message_id(@, user_id, message_id).states,
                !.out.result = "page",
                !.out.page = page,
                !.out.posts = PageSlice(search_state[1], page),
                !.out.keyboard = selection_keyboard(search_state[1], page)]

\* TelbooruBot.send_search_results_page_callback (main_refactored.py)
r_send_search_results_page_callback(st, user_id, page, message_id) ==
    LET search_state == get_search_state(st.search_states, user_id)
    IN  IF search_state = None
        THEN [st EXCEPT !.out.result = "no_active_search"]
        ELSE [st EXCEPT
                !.search_states =
                    update_menu_message_id(@, user_id, message_id).states,
                !.out.result = "page",
                !.out.page = page,
                !.out.posts = PageSlice(search_state[1], page),
                !.out.keyboard = selection_keyboard(search_state[1], page)]

\* Variant: a search that shows no page ends the session of its user
r_perform_batch_search_ending(st, tags, user_id, o1, message_id) ==
    LET settings == get_user_settings(st.user_files, user_id)
        found == search_posts_with_preferences(tags, settings, SearchLimit, o1)
        posts == found.posts
        search_state == SearchState(tags, posts, 0, TotalPagesOf(posts))
        st1 == [st EXCEPT !.out.text = tags,
                          !.out.requests = found.requests,
                          !.out.upstream = <<o1>>,
                          !.search_states = DictPop(@, user_id)]
    IN  IF found.raised THEN [st1 EXCEPT !.out.result = "error"]
        ELSE IF posts = <<>> THEN [st1 EXCEPT !.out.result = "no_images"]
        ELSE r_send_search_results_page(
                [st1 EXCEPT !.search_states =
                    save_search_state(@, user_id, search_state)],
                user_id, 0, message_id)

\* TelbooruBot.perform_batch_search (main_refactored.py)
r_perform_batch_search(st, tags, user_id, o1, message_id) ==
    LET settings == get_user_settings(st.user_files, user_id)
        found == search_posts_with_preferences(tags, settings, SearchLimit, o1)
        posts == found.posts
        search_state == SearchState(tags, posts, 0, TotalPagesOf(posts))
        st1 == [st EXCEPT !.out.text = tags,
                          !.out.requests = found.requests,
                          !.out.upstream = <<o1>>]
    IN  IF found.raised THEN [st1 EXCEPT !.out.result = "error"]
        ELSE IF posts = <<>> THEN [st1 EXCEPT !.out.result = "no_images"]
        ELSE r_send_search_results_page(
                [st1 EXCEPT !.search_states =
                    save_search_state(@, user_id, search_state)],
                user_id, 0, message_id)

\* TelbooruBot.perform_batch_search_callback (main_refactored.py)
r_perform_batch_search_callback(st, tags, user_id, o1, message_id) ==
    LET settings == get_user_settings(st.user_files, user_id)
        found == search_posts_with_preferences(tags, settings, SearchLimit, o1)
        posts == found.posts
        search_state == SearchState(tags, posts, 0, TotalPagesOf(posts))
        st1 == [st EXCEPT !.out.text = tags,
                          !.out.requests = found.requests,
                          !.out.upstream = <<o1>>]
    IN  IF found.raised THEN [st1 EXCEPT !.out.result = "error"]
        ELSE IF posts = <<>> THEN [st1 EXCEPT !.out.result = "no_images"]
        ELSE r_send_search_results_page_callback(
                [st1 EXCEPT !.search_states =
                    save_search_state(@, user_id, search_state)],
                user_id, 0, message_id)

\* TelbooruBot.process_autotag_addition (main_refactored.py)
r_process_autotag_addition(st, tag_text0, user_id) ==
    LET st1 == [st EXCEPT !.user_states = DictPop(@, user_id)]
        tag_text == strip(tag_text0)
        added == add_auto_tag(st.user_files, user_id, tag_text, st.disk)
    IN  IF tag_text = <<>> THEN [st1 EXCEPT !.out.result = "invalid_tag"]
        ELSE IF added.raised
        THEN [st1 EXCEPT !.user_files = added.files,
                         !.out.saved = Some(FALSE),
                         !.out.result = "raised"]
        ELSE IF added.ret
        THEN [st1 EXCEPT !.user_files = added.files,
                         !.out.saved = Some(TRUE),
                         !.out.result = "added"]
        ELSE [st1 EXCEPT !.out.result = "duplicate"]

\* TelbooruBot.handle_text_input (main_refactored.py)
r_handle_text_input(st, user_id, message_text, o1, message_id) ==
    LET text == strip(message_text)
        st1 == Begin(st, "text", user_id, 0)
    IN  IF user_id \in DOMAIN st.user_states
           /\ st.user_states[user_id] = WAITING_FOR_AUTOTAG
        THEN r_process_autotag_addition(st1, text, user_id)
        ELSE r_perform_batch_search(st1, text, user_id, o1, message_id)

\* TelbooruBot.show_search_page (main_refactored.py)
r_show_search_page(st, user_id, page, message_id) ==
    LET search_state == get_search_state(st.search_states, user_id)
        updated == update_page(st.search_states, user_id, page)
        st1 == IF search_state # None
               THEN [st EXCEPT !.search_states = updated.states,
                               !.out.ret = Some(updated.ret)]
               ELSE st
    IN  r_send_search_results_page_callback(st1, user_id, page, message_id)

\* TelbooruBot._resend_selection_menu (main_refactored.py)
r_resend_selection_menu(st, user_id, message_id) ==
    [st EXCEPT
        !.search_states =
            update_menu_message_id(@, user_id, message_id).states,
        !.out.keyboard =
            selection_keyboard(st.search_states[user_id],
                               st.search_states[user_id].current_page)]

\* TelbooruBot.send_full_image (main_refactored.py)
r_send_full_image(st, user_id, post_index, message_id) ==
    LET search_state == get_search_state(st.search_states, user_id)
    IN  IF search_state = None \/ post_index >= Len(search_state[1].results)
        THEN [st EXCEPT !.out.result = "not_found"]
        ELSE IF PyIndexRaises(search_state[1].results, post_index)
        THEN [st EXCEPT !.out.result = "raised"]
        ELSE r_resend_selection_menu(
                [st EXCEPT
                    !.out.result = "media",
                    !.out.post =
                        Some(PyIndex(search_state[1].results, post_index))],
                user_id, message_id)

\* TelbooruBot.handle_toggle_callback (main_refactored.py)
r_handle_toggle_callback(st, user_id, rule) ==
    LET toggled == toggle_rule(st.user_files, user_id, rule, st.disk)
    IN  IF toggled.raised
        THEN [st EXCEPT !.user_files = toggled.files,
                        !.out.saved = Some(FALSE),
                        !.out.result = "raised"]
        ELSE [st EXCEPT !.user_files = toggled.files,
                        !.out.saved = Some(TRUE),
                        !.out.result = "toggled",
                        !.out.ret = Some(toggled.ret)]

\* TelbooruBot.handle_autotag_callback (main_refactored.py),
\* data "autotag_remove_<i>"
r_handle_autotag_remove(st, user_id, index) ==
    LET removed == remove_auto_tag_by_index(st.user_files, user_id, index,
                                            st.disk)
    IN  IF removed.raised
        THEN [st EXCEPT !.user_files = removed.files,
                        !.out.saved = Some(FALSE),
                        !.out.result = "raised"]
        ELSE IF removed.ret
        THEN [st EXCEPT !.user_files = removed.files,
                        !.out.saved = Some(TRUE),
                        !.out.result = "removed"]
        ELSE st

\* TelbooruBot.handle_autotag_callback (main_refactored.py),
\* data "autotag_add"
r_handle_autotag_add(st, user_id) ==
    [st EXCEPT
        !.user_states = DictSet(@, user_id, WAITING_FOR_AUTOTAG),
        !.out.result = "prompt"]

\* ---- callback dispatch ---------------------------------------------------

MenuKinds == {"menu_search", "menu_random", "menu_tags", "menu_settings",
              "back_main"}

\* TelbooruBot.handle_callback_query (main.py)
handle_callback_query(st, user_id, data, o1, o2, message_id) ==
    LET st0 == Begin(st, data.kind, user_id, data.n)
        st1 == IF data.kind \in MenuKinds
               THEN [st0 EXCEPT !.user_states = DictPop(@, user_id)]
               ELSE st0
    IN  CASE data.kind = "menu_random" ->
                perform_batch_search_callback(st1, <<>>, user_id, o1, o2,
                                              message_id)
          [] data.kind \in MenuKinds \ {"menu_random"} ->
                [st1 EXCEPT !.out.result = "menu"]
          [] data.kind = "search_page" ->
                show_search_page(st1, user_id, data.n, message_id)
          [] data.kind = "post" ->
                send_full_image(st1, user_id, data.n, message_id)
          [] data.kind = "settings" ->
                [st1 EXCEPT !.out.result = "menu"]
          [] data.kind = "toggle" ->
                handle_toggle_callback(st1, user_id, data.rule)
          [] data.kind = "autotag_remove" ->
                handle_autotag_remove(st1, user_id, data.n)
          [] data.kind = "autotag_add" ->
                handle_autotag_add(st1, user_id)
          [] OTHER -> st1

\* TelbooruBot.handle_callback_query (main_refactored.py)
r_handle_callback_query(st, user_id, data, o1, message_id) ==
    LET st0 == Begin(st, data.kind, user_id, data.n)
        st1 == IF data.kind \in MenuKinds
               THEN [st0 EXCEPT !.user_states = DictPop(@, user_id)]
               ELSE st0
    IN  CASE data.kind = "menu_random" ->
                r_perform_batch_search_callback(st1, <<>>, user_id, o1,
                                                message_id)
          [] data.kind \in MenuKinds \ {"menu_random"} ->
                [st1 EXCEPT !.out.result = "menu"]
          [] data.kind = "search_page" ->
                r_show_search_page(st1, user_id, data.n, message_id)
          [] data.kind = "post" ->
                r_send_full_image(st1, user_id, data.n, message_id)
          [] data.kind = "settings" ->
                [st1 EXCEPT !.out.result = "menu"]
          [] data.kind = "toggle" ->
                r_handle_toggle_callback(st1, user_id, data.rule)
          [] data.kind = "autotag_remove" ->
                r_handle_autotag_remove(st1, user_id, data.n)
          [] data.kind = "autotag_add" ->
                r_handle_autotag_add(st1, user_id)
          [] OTHER -> st1

\* ------------------------------------------------------------------------
\* Tag lookup ("/tags <query>")
\* ------------------------------------------------------------------------
TagLookupLimit == 20
PatternMinLen == 3
TagsShown == 10

\* A decoded JSON body of the tag endpoint: as for posts, with the keys
\* 'tag' and 'tags'
TNull == [t |-> "null", items |-> <<>>, tag |-> None, tags |-> None,
          other |-> FALSE]
TList(items) == [t |-> "list", items |-> items, tag |-> None, tags |-> None,
                 other |-> FALSE]
TScalar == [t |-> "scalar", items |-> <<>>, tag |-> None, tags |-> None,
            other |-> FALSE]
TDict(tag, tags, other) ==
    [t |-> "dict", items |-> <<>>, tag |-> tag, tags |-> tags, other |-> other]

\* {'tag': []}
EmptyTagDict == TDict(Some(ListVal(<<>>)), None, FALSE)

\* bool(value) for the dict get_tags returns
TagTruthy(j) == j.tag # None \/ j.tags # None \/ j.other

\* The query parameters of a tag request; "if name:" and "if tags:" leave
\* out a filter that is None or empty
TagParams(limit, name, tags) ==
    [page |-> "dapi", s |-> "tag", q |-> Some("index"), limit |-> limit,
     name |-> IF name # None /\ name[1] # <<>> THEN name ELSE None,
     tags |-> IF tags # None /\ tags[1] # <<>> THEN tags ELSE None]

\* The normalisation of a tag reply, the same in BooruAPIWrapper.get_tags
\* and BooruRepository.get_tags
NormalizeTags(result) ==
    IF result.t = "null" THEN EmptyTagDict
    ELSE IF result.t = "list" THEN TDict(Some(ListVal(result.items)), None, FALSE)
    ELSE IF result.t # "dict" THEN EmptyTagDict
    ELSE IF result.tag = None /\ result.tags # None
         THEN [result EXCEPT !.tag = result.tags]
    ELSE result

\* BooruAPIWrapper.get_tags (main.py): a failed request gives {'tag': []}
get_tags(limit, name, tags, o) ==
    [requests |-> <<TagParams(limit, name, tags)>>,
     result |-> IF o.ok THEN NormalizeTags(o.body) ELSE EmptyTagDict]

\* BooruRepository.get_tags: a failed request is raised
repo_get_tags(criteria, o) ==
    [requests |-> <<TagParams(criteria.limit, criteria.name, criteria.pattern)>>,
     raised |-> ~o.ok,
     result |-> IF o.ok THEN NormalizeTags(o.body) ELSE TNull]

\* BooruService.search_tags
search_tags(pattern, name, limit, o) ==
    LET r == repo_get_tags([pattern |-> pattern, name |-> name,
                            limit |-> limit], o)
    IN  [requests |-> r.requests,
         raised |-> r.raised,
         tags |-> IF r.raised \/ r.result.tag = None THEN <<>>
                  ELSE (r.result.tag[1]).items]

\* Variant: the query is sent as the pattern as it is
search_tags_with_fallback_bare(query, limit, o1, o2) ==
    LET exact == search_tags(None, Some(query), limit, o1)
        loose == search_tags(Some(query), None, limit, o2)
    IN  IF ~exact.raised /\ exact.tags = <<>> /\ Len(query) >= PatternMinLen
        THEN [requests |-> exact.requests \o loose.requests,
              raised |-> loose.raised,
              tags |-> loose.tags]
        ELSE exact

\* BooruService.search_tags_with_fallback: o1 is what the exact-name request
\* comes to, o2 what the pattern request comes to if it is made
search_tags_with_fallback(query, limit, o1, o2) ==
    LET exact == search_tags(None, Some(query), limit, o1)
        loose == search_tags(Some(<<"%">> \o query \o <<"%">>), None, limit, o2)
    IN  IF ~exact.raised /\ exact.tags = <<>> /\ Len(query) >= PatternMinLen
        THEN [requests |-> exact.requests \o loose.requests,
              raised |-> loose.raised,
              tags |-> loose.tags]
        ELSE exact

\* not response or 'tag' not in response or not response['tag']
NoTags(response) ==
    \/ ~TagTruthy(response)
    \/ response.tag = None
    \/ ~ValTruthy(response.tag[1])

\* TelbooruBot.search_and_send_tags (main.py)
search_and_send_tags(st, query, o1, o2) ==
    LET wild == InList("%", query) \/ InList("*", query)
        first == IF wild THEN get_tags(TagLookupLimit, None, Some(query), o1)
                 ELSE get_tags(TagLookupLimit, Some(query), None, o1)
        again == ~wild /\ NoTags(first.result) /\ Len(query) >= PatternMinLen
        second == get_tags(TagLookupLimit, None,
                           Some(<<"%">> \o query \o <<"%">>), o2)
        response == IF again THEN second.result ELSE first.result
        requests == IF again THEN first.requests \o second.requests
                    ELSE first.requests
        st1 == [st EXCEPT !.out.text = query,
                          !.out.requests = requests,
                          !.out.upstream = SubSeq(<<o1, o2>>, 1, Len(requests))]
    IN  IF NoTags(response)
        THEN [st1 EXCEPT !.out.result = "no_tags"]
        ELSE [st1 EXCEPT !.out.result = "tags",
                         !.out.posts = (response.tag[1]).items,
                         !.out.page = Min(Len((response.tag[1]).items),
                                          TagsShown)]

\* TelbooruBot.search_and_send_tags (main_refactored.py)
r_search_and_send_tags(st, query, o1, o2) ==
    LET found == search_tags_with_fallback(query, TagLookupLimit, o1, o2)
        st1 == [st EXCEPT !.out.text = query,
                          !.out.requests = found.requests,
                          !.out.upstream =
                              SubSeq(<<o1, o2>>, 1, Len(found.requests))]
    IN  IF found.raised THEN [st1 EXCEPT !.out.result = "error"]
        ELSE IF found.tags = <<>> THEN [st1 EXCEPT !.out.result = "no_tags"]
        ELSE [st1 EXCEPT !.out.result = "tags",
                         !.out.posts = found.tags,
                         !.out.page = Min(Len(found.tags), TagsShown)]

\* TelbooruBot.tags_command (main.py): query is ' '.join(context.args)
tags_command(st, user_id, query, o1, o2) ==
    LET st1 == Begin(st, "tags", user_id, 0)
    IN  IF query # <<>> THEN search_and_send_tags(st1, query, o1, o2)
        ELSE [st1 EXCEPT !.out.result = "usage"]

\* TelbooruBot.tags_command (main_refactored.py)
r_tags_command(st, user_id, query, o1, o2) ==
    LET st1 == Begin(st, "tags", user_id, 0)
    IN  IF query # <<>> THEN r_search_and_send_tags(st1, query, o1, o2)
        ELSE [st1 EXCEPT !.out.result = "usage"]

\* ------------------------------------------------------------------------
\* Inputs
\* ------------------------------------------------------------------------

\* The posts of an upstream reply with n posts; replies of different sizes
\* share no post
PostList(n) == [i \in 1..n |-> 10 * n + i]

PostCounts == 0..MaxPosts

Bodies ==
    {JDict(Some(ListVal(PostList(n))), None, FALSE) : n \in PostCounts}
    \cup {JList(PostList(2)),
          JDict(None, Some(ListVal(PostList(2))), FALSE),
          JDict(Some(ObjVal(PostList(1)[1])), None, FALSE),
          JDict(None, None, FALSE),
          JDict(None, None, TRUE),
          JNull,
          JScalar}

Failures == {"conn"}

Outcomes == {Reply(b) : b \in Bodies} \cup {Failure(e) : e \in Failures}

\* The fallback request is made by main.py only, after a failed primary one;
\* its reply is drawn from fewer shapes and sizes
FallbackBodies ==
    {JDict(Some(ListVal(PostList(n))), None, FALSE) : n \in {0, 3}}
    \cup {JList(PostList(2)),
          JDict(None, Some(ListVal(PostList(2))), FALSE),
          JNull}

FallbackOutcomes(o1) ==
    IF impl = "main" /\ ~o1.ok
    THEN {Reply(b) : b \in FallbackBodies} \cup {Failure(e) : e \in Failures}
    ELSE {o1}

\* Text messages as they arrive (never empty), before strip()
Messages == {<<"q", " ">>, <<" ">>}

Rules == {<<"r">>}

PageArgs == (0 - 1)..MaxPageArg
IndexArgs == (0 - 2)..MaxIndexArg
AutoTagIndexArgs == (0 - 1)..1
\* The id the transport gives a menu message it has sent is opaque
MessageIds == {"menu"}

\* No function called on its own
NoCall == [fn |-> "none", base |-> <<>>, settings |-> UserSettings]

\* ------------------------------------------------------------------------
\* Actions: one per kind of update the bot receives
\* ------------------------------------------------------------------------
Apply(st) ==
    /\ search_states' = st.search_states
    /\ user_states' = st.user_states
    /\ user_files' = st.user_files
    /\ out' = st.out
    /\ UNCHANGED <<impl, call, returned, tasks, keyboards>>

Callback(user_id, data, o1, o2, message_id) ==
    IF impl = "main"
    THEN Apply(handle_callback_query(State, user_id, data, o1, o2, message_id))
    ELSE Apply(r_handle_callback_query(State, user_id, data, o1, message_id))

\* A text message whose text is one of messages, answered upstream by one
\* of outcomes
TextMessageOf(u, messages, outcomes) ==
    \E text \in messages, o1 \in outcomes, m \in MessageIds :
        \E o2 \in FallbackOutcomes(o1) :
            IF impl = "main"
            THEN Apply(handle_text_input(State, u, text, o1, o2, m))
            ELSE Apply(r_handle_text_input(State, u, text, o1, m))

TextMessage(u) == TextMessageOf(u, Messages, Outcomes)

MenuRandom(u) ==
    \E o1 \in Outcomes, m \in MessageIds :
        \E o2 \in FallbackOutcomes(o1) :
            Callback(u, Data("menu_random", 0, <<>>), o1, o2, m)

MenuNavigation(u) ==
    \E kind \in MenuKinds \ {"menu_random"} :
        Callback(u, Data(kind, 0, <<>>), Reply(JNull), Reply(JNull), "menu")

SettingsMenu(u) ==
    Callback(u, Data("settings", 0, <<>>), Reply(JNull), Reply(JNull), "menu")

\* A press of a button "search_page_<page>"
SearchPageOf(u, pages) ==
    \E page \in pages, m \in MessageIds :
        Callback(u, Data("search_page", page, <<>>), Reply(JNull),
                 Reply(JNull), m)

SearchPage(u) == SearchPageOf(u, PageArgs)

SelectPost(u) ==
    \E post_index \in IndexArgs, m \in MessageIds :
        Callback(u, Data("post", post_index, <<>>), Reply(JNull),
                 Reply(JNull), m)

ToggleRule(u) ==
    \E rule \in Rules :
        Callback(u, Data("toggle", 0, rule), Reply(JNull), Reply(JNull), "menu")

AutotagAdd(u) ==
    Callback(u, Data("autotag_add", 0, <<>>), Reply(JNull), Reply(JNull), "menu")

AutotagRemove(u) ==
    \E index \in AutoTagIndexArgs :
        Callback(u, Data("autotag_remove", index, <<>>), Reply(JNull),
                 Reply(JNull), 1)

\* ------------------------------------------------------------------------
\* Specification: the bot serving updates one at a time
\* ------------------------------------------------------------------------
Init ==
    /\ impl \in {"main", "refactored"}
    /\ search_states = EmptyDict
    /\ user_states = EmptyDict
    /\ user_files = EmptyDict
    /\ out = NoOut("start", 0, 0)
    /\ call = NoCall
    /\ returned = None
    /\ tasks = <<>>
    /\ keyboards = EmptyDict

Next ==
    \E u \in Actors :
        \/ TextMessage(u)
        \/ MenuRandom(u)
        \/ MenuNavigation(u)
        \/ SettingsMenu(u)
        \/ SearchPage(u)
        \/ SelectPost(u)
        \/ ToggleRule(u)
        \/ AutotagAdd(u)
        \/ AutotagRemove(u)

Spec == Init /\ [][Next]_vars

\* ------------------------------------------------------------------------
\* SpecPages: one user searching and paging through result sets of up to
\* MaxResults posts
\* ------------------------------------------------------------------------
MaxResults == 12

LargeOutcomes ==
    {Reply(JDict(Some(ListVal(PostList(n))), None, FALSE)) : n \in 0..MaxResults}

LargePageArgs == (0 - 1)..(((MaxResults - 1) \div PostsPerPage) + 1)

LargeSearch(u) == TextMessageOf(u, {<<"q">>}, LargeOutcomes)

LargeSearchPage(u) == SearchPageOf(u, LargePageArgs)

NextPages ==
    \E u \in Actors :
        \/ LargeSearch(u)
        \/ LargeSearchPage(u)

SpecPages == Init /\ [][NextPages]_vars

\* ------------------------------------------------------------------------
\* SpecCompose: the query composition called on its own
\* ------------------------------------------------------------------------
MaxAutoTags == 2
MaxRules == 2

\* All sequences over S of length at most n, and those without repetition
RECURSIVE SeqsUpTo(_, _)
SeqsUpTo(S, n) ==
    IF n = 0 THEN {<<>>}
    ELSE LET shorter == SeqsUpTo(S, n - 1)
         IN  shorter \cup {Append(q, x) : q \in shorter, x \in S}

Distinct(q) == \A i, j \in 1..Len(q) : i # j => q[i] # q[j]

\* Strings as any caller may pass them, and as the handlers of the bot pass
\* them: stripped, and never empty for a stored tag or a rule
AnyStrings == {<<>>, <<"q">>, <<"a">>, <<"b">>, <<"s">>, <<"x">>, <<SP>>,
               <<SP, "a">>, <<"b", SP>>}
TagStrings == {t \in AnyStrings : t # <<>> /\ strip(t) = t}
BaseStrings == {<<>>, <<"q">>, <<SP>>, <<SP, "q">>}

RuleDicts(names) ==
    {d \in SeqsUpTo([rule : names, enabled : BOOLEAN], MaxRules) :
        \A i, j \in 1..Len(d) : i # j => d[i].rule # d[j].rule}

\* UserSettings as UserService and the handlers can have stored them
StoredSettings ==
    [auto_tags : {q \in SeqsUpTo(TagStrings, MaxAutoTags) : Distinct(q)},
     toggle_rules : RuleDicts({<<"s">>, <<"x">>})]

\* UserSettings as any caller of BooruService can construct them
AnySettings ==
    [auto_tags : SeqsUpTo({<<>>, <<"a">>, <<"b">>, <<SP, "a">>}, MaxAutoTags),
     toggle_rules : RuleDicts({<<>>, <<"s">>, <<"x">>})]

InitCompose ==
    /\ impl \in {"main", "refactored"}
    /\ search_states = EmptyDict
    /\ user_states = EmptyDict
    /\ user_files = EmptyDict
    /\ out = NoOut("start", 0, 0)
    /\ returned = None
    /\ tasks = <<>>
    /\ keyboards = EmptyDict
    /\ \/ /\ impl = "main"
          /\ call \in [fn : {"compose"},
                       base : {strip(b) : b \in BaseStrings},
                       settings : StoredSettings]
       \/ /\ impl = "refactored"
          /\ call \in [fn : {"compose"},
                       base : BaseStrings,
                       settings : AnySettings]

\* The composition as the running implementation computes it: inline in
\* perform_batch_search (main.py), BooruService._apply_user_preferences
\* (main_refactored.py)
Compose ==
    /\ call.fn = "compose"
    /\ returned = None
    /\ returned' =
          IF impl = "main"
          THEN Some(inline_apply_preferences(call.base, call.settings))
          ELSE Some(apply_user_preferences(call.base, call.settings))
    /\ UNCHANGED <<impl, search_states, user_states, user_files, out, call,
                   tasks, keyboards>>

NextCompose == Compose

SpecCompose == InitCompose /\ [][NextCompose]_vars

\* ------------------------------------------------------------------------
\* SpecTags: the /tags command, with replies of up to MaxTags tags
\* ------------------------------------------------------------------------
MaxTags == 2

\* The tags of an upstream reply with n tags
TagList(n) == [i \in 1..n |-> 100 + 10 * n + i]

TagBodies ==
    {TDict(Some(ListVal(TagList(n))), None, FALSE) : n \in 0..MaxTags}
    \cup {TList(TagList(1)),
          TDict(None, Some(ListVal(TagList(1))), FALSE),
          TDict(Some(ObjVal(TagList(1)[1])), None, FALSE),
          TDict(None, None, FALSE),
          TDict(None, None, TRUE),
          TNull,
          TScalar}

TagOutcomes == {Reply(b) : b \in TagBodies} \cup {Failure(e) : e \in Failures}

\* The arguments of /tags joined by spaces: none, two characters, three
\* characters, and queries that hold a wildcard
TagQueries == {<<>>, <<"a", "b">>, <<"a", "b", "c">>, <<"a", "*">>,
               <<"%", "b", "c">>}

TagsCommand(u) ==
    \E query \in TagQueries, o1 \in TagOutcomes, o2 \in TagOutcomes :
        IF impl = "main"
        THEN Apply(tags_command(State, u, query, o1, o2))
        ELSE Apply(r_tags_command(State, u, query, o1, o2))

NextTags == \E u \in Actors : TagsCommand(u)

SpecTags == Init /\ [][NextTags]_vars

\* ------------------------------------------------------------------------
\* SpecSettings: the settings dialogue (auto-tags and toggle rules), with
\* writes of the settings file that can fail
\* ------------------------------------------------------------------------

\* What the user sends in answer to the auto-tag prompt, before strip()
TagMessages == {<<"a">>, <<"b", SP>>, <<SP>>}

RemoveArgs == (0 - 1)..MaxAutoTags

CallbackOn(disk, user_id, data) ==
    IF impl = "main"
    THEN Apply(handle_callback_query(StateOn(disk), user_id, data,
                                     Reply(JNull), Reply(JNull), "menu"))
    ELSE Apply(r_handle_callback_query(StateOn(disk), user_id, data,
                                       Reply(JNull), "menu"))

\* "Add Auto Tag" is pressed: the bot prompts and waits for the tag
PromptAutotag(u) == CallbackOn("ok", u, Data("autotag_add", 0, <<>>))

\* The user answers the prompt
AnswerPrompt(u) ==
    /\ u \in DOMAIN user_states
    /\ user_states[u] = WAITING_FOR_AUTOTAG
    /\ \E text \in TagMessages, disk \in DiskOutcomes :
          IF impl = "main"
          THEN Apply(handle_text_input(StateOn(disk), u, text, Reply(JNull),
                                       Reply(JNull), "menu"))
          ELSE Apply(r_handle_text_input(StateOn(disk), u, text, Reply(JNull),
                                         "menu"))

\* A press of "autotag_remove_<index>"
RemoveAutotag(u) ==
    \E index \in RemoveArgs, disk \in DiskOutcomes :
        CallbackOn(disk, u, Data("autotag_remove", index, <<>>))

\* A press of "toggle_<rule>"
PressToggle(u) ==
    \E rule \in Rules, disk \in DiskOutcomes :
        CallbackOn(disk, u, Data("toggle", 0, rule))

\* "Settings" is pressed: a pending prompt is dropped
OpenSettings(u) == CallbackOn("ok", u, Data("menu_settings", 0, <<>>))

\* UserService.clear_auto_tags called on its own (no handler of the bot
\* calls it)
ClearAutoTags(u) ==
    /\ impl = "refactored"
    /\ \E disk \in DiskOutcomes :
          LET cleared == clear_auto_tags(user_files, u, disk)
          IN  /\ user_files' = cleared.files
              /\ out' = [NoOut("clear", u, 0) EXCEPT
                            !.result = IF cleared.raised THEN "raised"
                                       ELSE "cleared",
                            !.page = cleared.ret,
                            !.saved = Some(~cleared.raised)]
    /\ UNCHANGED <<impl, search_states, user_states, call, returned, tasks, keyboards>>

\* A method of UserService called on its own: the files it leaves and what
\* it answered
ServiceCall(u, event, done, files, raised, ret) ==
    /\ impl = "refactored"
    /\ user_files' = files
    /\ out' = [NoOut(event, u, 0) EXCEPT
                  !.result = IF raised THEN "raised" ELSE done,
                  !.ret = ret,
                  !.saved = Some(~raised)]
    /\ UNCHANGED <<impl, search_states, user_states, call, returned, tasks, keyboards>>

\* UserService.set_rule called on its own
SetRule(u) ==
    \E rule \in Rules, enabled \in BOOLEAN, disk \in DiskOutcomes :
        LET set == set_rule(user_files, u, rule, enabled, disk)
        IN  ServiceCall(u, "set_rule", "rule_set", set.files, set.raised,
                        Some(enabled))

\* UserService.clear_rules called on its own
ClearRules(u) ==
    \E disk \in DiskOutcomes :
        LET cleared == clear_rules(user_files, u, disk)
        IN  ServiceCall(u, "clear_rules", "rules_cleared", cleared.files,
                        cleared.raised, None)

\* UserService.reset_user called on its own
ResetUser(u) ==
    \E disk \in DiskOutcomes :
        LET reset == reset_user(user_files, u, disk)
        IN  ServiceCall(u, "reset", "reset", reset.files, reset.raised, None)

\* UserService.delete_user called on its own
DeleteUser(u) ==
    \E disk \in RemoveOutcomes :
        LET deleted == delete_user(user_files, u, disk)
        IN  ServiceCall(u, "delete",
                        IF deleted.ret THEN "deleted" ELSE "absent",
                        deleted.files, deleted.raised, Some(deleted.ret))

NextSettings ==
    \E u \in Actors :
        \/ PromptAutotag(u)
        \/ AnswerPrompt(u)
        \/ RemoveAutotag(u)
        \/ PressToggle(u)
        \/ OpenSettings(u)
        \/ ClearAutoTags(u)
        \/ SetRule(u)
        \/ ClearRules(u)
        \/ ResetUser(u)
        \/ DeleteUser(u)

SpecSettings == Init /\ [][NextSettings]_vars

\* ------------------------------------------------------------------------
\* SpecUsers: the bot serving the updates of two users in any order
\* ------------------------------------------------------------------------
UserOutcomes ==
    {Reply(JDict(Some(ListVal(PostList(n))), None, FALSE)) : n \in {2, 6}}

\* A text message: a search, or the answer to the auto-tag prompt
UserText(u) == TextMessageOf(u, {<<"q">>}, UserOutcomes)

\* A press of "search_page_<page>" for the first or the second page
UserSearchPage(u) == SearchPageOf(u, {0, 1})

\* A press of "post_0"
UserSelectPost(u) ==
    Callback(u, Data("post", 0, <<>>), Reply(JNull), Reply(JNull), "menu")

NextUsers ==
    \E u \in Users :
        \/ UserText(u)
        \/ UserSearchPage(u)
        \/ UserSelectPost(u)
        \/ ToggleRule(u)
        \/ PromptAutotag(u)
        \/ DeleteUser(u)

SpecUsers == Init /\ [][NextUsers]_vars

\* ------------------------------------------------------------------------
\* SpecAwait: two handlers that change the settings of one user, in flight
\* on the event loop at once.  A handler runs from where it is up to its
\* next await and gives way there; nothing else runs in between.
\* ------------------------------------------------------------------------

\* The steps of the handlers, in the order of the code: the reads and
\* writes of the settings file, and the awaits between them.
\* Variant: the rule is toggled across an await
handle_toggle_steps_suspended ==
    <<"await", "load", "await", "modify", "save", "await", "load", "await">>

\* handle_callback_query, handle_toggle_callback, show_toggle_settings
handle_toggle_steps ==
    IF impl = "main"
    THEN <<"await", "load", "modify", "save", "await", "load", "await">>
    ELSE <<"await", "load", "modify", "save", "await", "load", "load",
           "await">>

\* handle_callback_query, handle_autotag_callback with
\* "autotag_remove_<i>", show_autotags_settings
handle_autotag_remove_steps ==
    <<"await", "load", "modify", "save", "await", "load", "await">>

\* handle_text_input, process_autotag_addition
process_autotag_addition_steps == <<"load", "modify", "save", "await">>

StepsOf(kind) ==
    CASE kind = "toggle" -> handle_toggle_steps
      [] kind = "remove" -> handle_autotag_remove_steps
      [] OTHER -> process_autotag_addition_steps

\* What a handler does to the settings it loaded; skip when it has nothing
\* to write (the tag is there already, the index is out of range)
Modify(task) ==
    CASE task.kind = "toggle" ->
            [task EXCEPT !.settings.toggle_rules =
                dict_set(@, task.text, ~dict_get(@, task.text, FALSE))]
      [] task.kind = "remove" ->
            IF 0 <= task.index /\ task.index < Len(task.settings.auto_tags)
            THEN [task EXCEPT !.settings.auto_tags = PyPop(@, task.index)]
            ELSE [task EXCEPT !.skip = TRUE]
      [] OTHER ->
            IF InList(task.text, task.settings.auto_tags)
            THEN [task EXCEPT !.skip = TRUE]
            ELSE [task EXCEPT !.settings.auto_tags = Append(@, task.text)]

\* One step of a handler, on its local settings and the files
Exec(step, task, files) ==
    CASE step = "load" ->
            [task |-> [task EXCEPT !.settings =
                          IF impl = "main"
                          THEN load_user_settings(files, task.user)
                          ELSE get_user_settings(files, task.user)],
             files |-> files]
      [] step = "modify" -> [task |-> Modify(task), files |-> files]
      [] step = "save" ->
            [task |-> task,
             files |-> IF task.skip THEN files
                       ELSE WriteFile(files, task.user, task.settings, "ok")]
      [] OTHER -> [task |-> task, files |-> files]

\* The handler runs from step i up to its next await, or to its end
RECURSIVE RunFrom(_, _, _, _)
RunFrom(steps, i, task, files) ==
    IF i > Len(steps) THEN [task |-> [task EXCEPT !.pc = Len(steps)],
                            files |-> files]
    ELSE LET r == Exec(steps[i], task, files)
         IN  IF steps[i] = "await"
             THEN [task |-> [r.task EXCEPT !.pc = i], files |-> r.files]
             ELSE RunFrom(steps, i + 1, r.task, r.files)

\* The updates whose handlers change settings
Mutators ==
    {[kind |-> "toggle", text |-> <<"r">>, index |-> 0],
     [kind |-> "toggle", text |-> <<"s">>, index |-> 0],
     [kind |-> "add", text |-> <<"a">>, index |-> 0],
     [kind |-> "remove", text |-> <<>>, index |-> 0]}

NewTask(m) ==
    [kind |-> m.kind, text |-> m.text, index |-> m.index, user |-> 1,
     pc |-> 0, settings |-> UserSettings, skip |-> FALSE]

\* The settings the user has when the two updates arrive
SettingsAtStart ==
    {UserSettings,
     [auto_tags |-> <<<<"b">>>>,
      toggle_rules |-> dict_set(<<>>, <<"r">>, TRUE)]}

InitAwait ==
    /\ impl \in {"main", "refactored"}
    /\ search_states = EmptyDict
    /\ user_states = EmptyDict
    /\ out = NoOut("start", 0, 0)
    /\ returned = None
    /\ \E start \in SettingsAtStart :
          /\ call = [fn |-> "handlers", base |-> <<>>, settings |-> start]
          /\ user_files = WriteFile(EmptyDict, 1, start, "ok")
    /\ \E m1 \in Mutators, m2 \in Mutators :
          tasks = <<NewTask(m1), NewTask(m2)>>
    /\ keyboards = EmptyDict

\* The event loop resumes handler t
RunTask(t) ==
    /\ tasks[t].pc < Len(StepsOf(tasks[t].kind))
    /\ LET r == RunFrom(StepsOf(tasks[t].kind), tasks[t].pc + 1, tasks[t],
                        user_files)
       IN  /\ tasks' = [tasks EXCEPT ![t] = r.task]
           /\ user_files' = r.files
    /\ UNCHANGED <<impl, search_states, user_states, out, call, returned,
                   keyboards>>

NextAwait == \E t \in 1..2 : RunTask(t)

SpecAwait == InitAwait /\ [][NextAwait]_vars

\* ------------------------------------------------------------------------
\* SpecClient: a method of the upstream client called on its own, with the
\* credentials it was built with
\* ------------------------------------------------------------------------

\* What makes a request fail: "conn", the host is not reached; "http",
\* raise_for_status on a status outside 2xx; "content_type", a 2xx reply
\* that response.json() refuses for its Content-Type; "timeout"; "decode", a
\* 2xx reply whose body is not JSON
RequestFailures == {"conn", "http", "content_type", "timeout", "decode"}

\* The exception session.get, raise_for_status or response.json raises:
\* aiohttp's ContentTypeError is a ClientResponseError
ExceptionOf(err) ==
    CASE err = "conn" -> "ClientConnectionError"
      [] err \in {"http", "content_type"} -> "ClientResponseError"
      [] err = "timeout" -> "TimeoutError"
      [] OTHER -> "ValueError"

\* Python's truth of an Optional[str]
StrTruthy(x) == x # None /\ x[1] # <<>>

\* Variant: each credential is sent when it is set
build_auth_params_each(api_key, user_id) ==
    [api_key |-> IF StrTruthy(api_key) THEN api_key ELSE None,
     user_id |-> IF StrTruthy(user_id) THEN user_id ELSE None]

\* _build_auth_params, the same in BooruAPIWrapper and BooruRepository: a
\* parameter that is not added is None
build_auth_params(api_key, user_id) ==
    IF StrTruthy(api_key) /\ StrTruthy(user_id)
    THEN [api_key |-> api_key, user_id |-> user_id]
    ELSE [api_key |-> None, user_id |-> None]

\* The request as it goes out: params.update(auth_params), json=1
Sent(params, api_key, user_id) ==
    [params |-> params, json |-> "1",
     auth |-> build_auth_params(api_key, user_id)]

\* BooruAPIWrapper._make_request (main.py): the exception is logged and
\* raised again as it is
make_request(params, api_key, user_id, o) ==
    [sent |-> Sent(params, api_key, user_id),
     raised |-> IF o.ok THEN "none" ELSE ExceptionOf(o.err)]

\* BooruRepository._make_request: the exception is raised as one of the
\* three repository exceptions
repo_make_request(params, api_key, user_id, o) ==
    [sent |-> Sent(params, api_key, user_id),
     raised |->
        IF o.ok THEN "none"
        ELSE IF ExceptionOf(o.err) = "ClientConnectionError"
        THEN "RepositoryConnectionException"
        ELSE IF ExceptionOf(o.err) = "ClientResponseError"
        THEN "RepositoryDataException"
        ELSE "RepositoryException"]

\* The query parameters of get_comments and get_deleted_images
CommentParams(post_id) ==
    [page |-> "dapi", s |-> "comment", q |-> Some("index"),
     post_id |-> post_id]

DeletedParams(last_id) ==
    [page |-> "dapi", s |-> "post", q |-> Some("index"), deleted |-> "show",
     last_id |-> last_id]

Methods == {"get_posts", "get_tags", "get_comments", "get_deleted_images"}

\* A method of BooruAPIWrapper (main.py): the requests as sent, and the
\* exception that reaches the caller; get_posts and get_tags catch every
\* exception of their requests
wrapper_call(c) ==
    LET requests ==
            CASE c.fn = "get_posts" ->
                    get_posts(c.limit, 0, <<"q">>, c.o1, c.o2).requests
              [] c.fn = "get_tags" ->
                    get_tags(c.limit, Some(<<"q">>), None, c.o1).requests
              [] c.fn = "get_comments" -> <<CommentParams(1)>>
              [] OTHER -> <<DeletedParams(None)>>
        made == [i \in 1..Len(requests) |->
                    make_request(requests[i], c.api_key, c.user_id,
                                 IF i = 1 THEN c.o1 ELSE c.o2)]
    IN  [sent |-> [i \in 1..Len(requests) |-> made[i].sent],
         raised |-> IF c.fn \in {"get_posts", "get_tags"} THEN "none"
                    ELSE made[1].raised]

\* A method of BooruRepository: "except RepositoryException: raise"
repository_call(c) ==
    LET requests ==
            CASE c.fn = "get_posts" ->
                    repo_get_posts([tags |-> <<"q">>, limit |-> c.limit,
                                    page |-> 0], c.o1).requests
              [] c.fn = "get_tags" ->
                    repo_get_tags([pattern |-> None, name |-> Some(<<"q">>),
                                   limit |-> c.limit], c.o1).requests
              [] c.fn = "get_comments" -> <<CommentParams(1)>>
              [] OTHER -> <<DeletedParams(None)>>
        made == repo_make_request(requests[1], c.api_key, c.user_id, c.o1)
    IN  [sent |-> <<made.sent>>, raised |-> made.raised]

\* The limits asked for, the credentials configured, and what the requests
\* come to
LimitArgs == {0 - 1, 0, 1, SearchLimit, MaxLimit, MaxLimit + 1}
Credentials == {None, Some(<<>>), Some(<<"k">>)}
ClientOutcomes ==
    {Reply(JNull), Reply(JList(PostList(1)))}
    \cup {Failure(e) : e \in RequestFailures}
ClientFallbackOutcomes == {Reply(JNull), Failure("conn")}

InitClient ==
    /\ impl \in {"main", "refactored"}
    /\ search_states = EmptyDict
    /\ user_states = EmptyDict
    /\ user_files = EmptyDict
    /\ out = NoOut("start", 0, 0)
    /\ returned = None
    /\ tasks = <<>>
    /\ keyboards = EmptyDict
    /\ call \in [fn : Methods, base : {<<>>}, settings : {UserSettings},
                 limit : LimitArgs, api_key : Credentials,
                 user_id : Credentials, o1 : ClientOutcomes,
                 o2 : ClientFallbackOutcomes]

ClientCall ==
    /\ call.fn \in Methods
    /\ returned = None
    /\ returned' = IF impl = "main" THEN Some(wrapper_call(call))
                   ELSE Some(repository_call(call))
    /\ UNCHANGED <<impl, search_states, user_states, user_files, out, call,
                   tasks, keyboards>>

NextClient == ClientCall

SpecClient == InitClient /\ [][NextClient]_vars

\* ------------------------------------------------------------------------
\* SpecMedia: get_media_type called on its own, on URLs of up to MaxUrlLen
\* characters
\* ------------------------------------------------------------------------
MaxUrlLen == 5

UrlChars == {".", "m", "p", "4", "g", "i", "f", "M"}

\* str.lower(), on the characters of UrlChars
lower(s) == [i \in 1..Len(s) |-> IF s[i] = "M" THEN "m" ELSE s[i]]

\* str.split(sep) for a separator of one character
RECURSIVE split(_, _)
split(s, sep) ==
    IF ~InList(sep, s) THEN <<s>>
    ELSE LET i == CHOOSE k \in 1..Len(s) :
                    s[k] = sep /\ \A j \in 1..(k - 1) : s[j] # sep
         IN  <<SubSeq(s, 1, i - 1)>> \o split(SubSeq(s, i + 1, Len(s)), sep)

\* Variant: the extension is compared as it is written
get_media_type_cased(file_url) ==
    LET extension == IF InList(".", file_url)
                     THEN split(file_url, ".")[Len(split(file_url, "."))]
                     ELSE <<>>
    IN  IF file_url = <<>> THEN "image"
        ELSE IF extension = <<"m", "p", "4">> THEN "video"
        ELSE IF extension = <<"g", "i", "f">> THEN "gif"
        ELSE "image"

\* get_media_type (main.py)
get_media_type(file_url) ==
    LET parts == split(lower(file_url), ".")
        extension == IF InList(".", file_url) THEN parts[Len(parts)]
                     ELSE <<>>
    IN  IF file_url = <<>> THEN "image"
        ELSE IF extension = <<"m", "p", "4">> THEN "video"
        ELSE IF extension = <<"g", "i", "f">> THEN "gif"
        ELSE "image"

\* BooruService.get_media_type
service_get_media_type(file_url) ==
    LET parts == split(lower(file_url), ".")
        extension == IF InList(".", file_url) THEN parts[Len(parts)]
                     ELSE <<>>
    IN  IF file_url = <<>> THEN "image"
        ELSE IF extension = <<"m", "p", "4">> THEN "video"
        ELSE IF extension = <<"g", "i", "f">> THEN "gif"
        ELSE "image"

InitMedia ==
    /\ impl \in {"main", "refactored"}
    /\ search_states = EmptyDict
    /\ user_states = EmptyDict
    /\ user_files = EmptyDict
    /\ out = NoOut("start", 0, 0)
    /\ returned = None
    /\ tasks = <<>>
    /\ keyboards = EmptyDict
    /\ call \in [fn : {"get_media_type"}, base : SeqsUpTo(UrlChars, MaxUrlLen),
                 settings : {UserSettings}]

MediaType ==
    /\ call.fn = "get_media_type"
    /\ returned = None
    /\ returned' = IF impl = "main" THEN Some(get_media_type(call.base))
                   ELSE Some(service_get_media_type(call.base))
    /\ UNCHANGED <<impl, search_states, user_states, user_files, out, call,
                   tasks, keyboards>>

NextMedia == MediaType

SpecMedia == InitMedia /\ [][NextMedia]_vars

\* ------------------------------------------------------------------------
\* SpecSessions: searches that find posts, find none or fail, made by users
\* who may hold a session already
\* ------------------------------------------------------------------------
SessionOutcomes ==
    {Reply(JDict(Some(ListVal(PostList(n))), None, FALSE)) : n \in {0, 2, 6}}
    \cup {Reply(b) : b \in {JList(PostList(2)),
                            JDict(None, Some(ListVal(PostList(2))), FALSE),
                            JDict(Some(ObjVal(PostList(1)[1])), None, FALSE),
                            JDict(None, None, FALSE),
                            JDict(None, None, TRUE),
                            JNull,
                            JScalar}}
    \cup {Failure(e) : e \in Failures}

\* A text message that is a search
SessionText(u) == TextMessageOf(u, {<<"q">>}, SessionOutcomes)

\* A press of "Random Image"
SessionRandom(u) ==
    \E o1 \in SessionOutcomes, m \in MessageIds :
        \E o2 \in FallbackOutcomes(o1) :
            Callback(u, Data("menu_random", 0, <<>>), o1, o2, m)

\* A press of "search_page_<page>", for a page of the session or none
SessionPage(u) == SearchPageOf(u, {0 - 1, 0, 1})

NextSessions ==
    \E u \in Users :
        \/ SessionText(u)
        \/ SessionRandom(u)
        \/ SessionPage(u)

SpecSessions == Init /\ [][NextSessions]_vars

\* ------------------------------------------------------------------------
\* SpecButtons: users who search and then press only buttons of the
\* keyboards the bot has sent them for their current session
\* ------------------------------------------------------------------------
ButtonPostCounts == {0, 2, 5, 11}

ButtonOutcomes ==
    {Reply(JDict(Some(ListVal(PostList(n))), None, FALSE)) :
        n \in ButtonPostCounts}

\* The buttons a user has been sent for the session they hold, after a
\* handler ended in st: a search that stored a session starts afresh, any
\* other keyboard adds its buttons
Shown(st) ==
    LET u == st.out.user
        buttons == {st.out.keyboard[i] : i \in 1..Len(st.out.keyboard)}
    IN  IF st.out.keyboard = <<>> THEN keyboards
        ELSE IF st.out.event \in {"text", "menu_random"}
                \/ u \notin DOMAIN keyboards
        THEN DictSet(keyboards, u, buttons)
        ELSE DictSet(keyboards, u, keyboards[u] \cup buttons)

ApplyShown(st) ==
    /\ search_states' = st.search_states
    /\ user_states' = st.user_states
    /\ user_files' = st.user_files
    /\ out' = st.out
    /\ keyboards' = Shown(st)
    /\ UNCHANGED <<impl, call, returned, tasks>>

\* A text message that is a search
ButtonSearch(u) ==
    \E o1 \in ButtonOutcomes, m \in MessageIds :
        IF impl = "main"
        THEN ApplyShown(handle_text_input(State, u, <<"q">>, o1, o1, m))
        ELSE ApplyShown(r_handle_text_input(State, u, <<"q">>, o1, m))

\* A press of a button of a keyboard the user was sent
PressButton(u) ==
    /\ u \in DOMAIN keyboards
    /\ \E data \in keyboards[u], m \in MessageIds :
          IF impl = "main"
          THEN ApplyShown(handle_callback_query(State, u, data, Reply(JNull),
                                                Reply(JNull), m))
          ELSE ApplyShown(r_handle_callback_query(State, u, data,
                                                  Reply(JNull), m))

NextButtons ==
    \E u \in Users :
        \/ ButtonSearch(u)
        \/ PressButton(u)

SpecButtons == Init /\ [][NextButtons]_vars

\* ------------------------------------------------------------------------
\* SpecToggle: one rule toggled up to two times in a row for a user with
\* stored settings; returned lists what each toggle answered
\* ------------------------------------------------------------------------
ToggledRules == {<<"s">>, <<"x">>, <<"y">>}

InitToggle ==
    /\ impl \in {"main", "refactored"}
    /\ search_states = EmptyDict
    /\ user_states = EmptyDict
    /\ out = NoOut("start", 0, 0)
    /\ returned = <<>>
    /\ tasks = <<>>
    /\ keyboards = EmptyDict
    /\ call \in [fn : {"toggle_rule"}, base : ToggledRules,
                 settings : StoredSettings]
    /\ user_files = WriteFile(EmptyDict, 1, call.settings, "ok")

\* "toggle_<rule>" is pressed
ToggleAgain ==
    /\ Len(returned) < 2
    /\ LET st == IF impl = "main"
                 THEN handle_callback_query(State, 1,
                          Data("toggle", 0, call.base), Reply(JNull),
                          Reply(JNull), "menu")
                 ELSE r_handle_callback_query(State, 1,
                          Data("toggle", 0, call.base), Reply(JNull), "menu")
       IN  /\ user_files' = st.user_files
           /\ out' = st.out
           /\ returned' = Append(returned, st.out.ret[1])
    /\ UNCHANGED <<impl, search_states, user_states, call, tasks, keyboards>>

NextToggle == ToggleAgain

SpecToggle == InitToggle /\ [][NextToggle]_vars

\* ------------------------------------------------------------------------
\* SpecRace: two handlers that read or replace the session of one user, in
\* flight on the event loop at once.  A handler holds a reference to the
\* SearchState it read; the state object of a search is told from another
\* by its results, and a copy held by a handler is kept equal to the stored
\* object for as long as that object is the one stored.
\* ------------------------------------------------------------------------
\* The user both handlers serve
RaceUser == CHOOSE u \in Users : \A v \in Users : u <= v

\* The local search_state refers to the object that is stored
Attached(local, states) ==
    /\ local # None
    /\ RaceUser \in DOMAIN states
    /\ states[RaceUser].results = local[1].results

\* The object a local search_state refers to, as it is now
Live(local, states) ==
    IF Attached(local, states) THEN states[RaceUser] ELSE local[1]

\* The caption of the album of a page: page number, total_pages, query and
\* the posts shown
caption_of(search_state, page) ==
    [page |-> page, total_pages |-> search_state.total_pages,
     query |-> search_state.query, posts |-> PageSlice(search_state, page)]

\* Variant: the menu is built from the state stored when it is sent
menu_of_stored(task, states) ==
    LET search_state == IF RaceUser \in DOMAIN states THEN states[RaceUser]
                        ELSE task.local[1]
    IN  [page |-> task.page, total_pages |-> search_state.total_pages,
         keyboard |-> selection_keyboard(search_state, task.page)]

\* The menu message sent after the album: its text names page and
\* total_pages, its keyboard is built from the local search_state
menu_of(task, states) ==
    LET search_state == Live(task.local, states)
    IN  [page |-> task.page, total_pages |-> search_state.total_pages,
         keyboard |-> selection_keyboard(search_state, task.page)]

\* search_state = get_search_state(user_id) at the start of a rendering
race_read(task, states, page) ==
    [task EXCEPT !.local = get_search_state(states, RaceUser),
                 !.seen = get_search_state(states, RaceUser),
                 !.page = page]

\* search_state.last_menu_message_id = id (main.py, on the local object) /
\* update_menu_message_id(user_id, id) (main_refactored.py, on the stored)
race_menu_id(task, states, which) ==
    IF which = "main"
    THEN IF Attached(task.local, states)
         THEN [states EXCEPT ![RaceUser].last_menu_message_id = Some("menu")]
         ELSE states
    ELSE update_menu_message_id(states, RaceUser, "menu").states

\* perform_batch_search from where it is up to its next await
race_search(task, states, which) ==
    LET tags == IF which = "main"
                THEN inline_apply_preferences(task.query, UserSettings)
                ELSE task.query
        search_state == SearchState(tags, task.posts, 0,
                                    TotalPagesOf(task.posts))
        stored == save_search_state(states, RaceUser, search_state)
        read == race_read(task, stored, 0)
    IN  CASE task.pc = 0 ->
                [task |-> [task EXCEPT !.pc = 1], states |-> states]
          [] task.pc = 1 ->
                [task |-> [read EXCEPT
                              !.pc = 2,
                              !.caption = Some(caption_of(search_state, 0))],
                 states |-> stored]
          [] task.pc = 2 ->
                [task |-> [task EXCEPT !.pc = 3,
                                       !.menu = Some(menu_of(task, states))],
                 states |-> states]
          [] OTHER ->
                [task |-> [task EXCEPT !.pc = 4, !.done = TRUE],
                 states |-> race_menu_id(task, states, which)]

\* show_search_page and send_search_results_page_callback from where they
\* are up to their next await; main.py has no await between the page
\* update and the read
race_page(task, states, which) ==
    LET updated == update_page(states, RaceUser, task.arg).states
        from == IF task.pc = 0 THEN updated ELSE states
        read == race_read(task, from, task.arg)
    IN  CASE task.pc = 0 /\ which = "refactored" ->
                [task |-> [task EXCEPT !.pc = 1], states |-> updated]
          [] task.pc = 0 \/ task.pc = 1 ->
                [task |-> [read EXCEPT !.pc = 2,
                                       !.done = (read.local = None)],
                 states |-> from]
          [] task.pc = 2 ->
                [task |-> [task EXCEPT
                              !.pc = 3,
                              !.caption =
                                  Some(caption_of(Live(task.local, states),
                                                  task.page))],
                 states |-> states]
          [] task.pc = 3 ->
                [task |-> [task EXCEPT !.pc = 4,
                                       !.menu = Some(menu_of(task, states))],
                 states |-> states]
          [] OTHER ->
                [task |-> [task EXCEPT !.pc = 5, !.done = TRUE],
                 states |-> race_menu_id(task, states, which)]

\* send_full_image and _resend_selection_menu from where they are up to
\* their next await
race_post(task, states, which) ==
    LET read == race_read(task, states, 0)
        absent == \/ read.local = None
                  \/ task.arg >= Len(read.local[1].results)
        paged == [task EXCEPT
                     !.page = Live(task.local, states).current_page]
    IN  CASE task.pc = 0 /\ absent ->
                [task |-> [task EXCEPT !.pc = 1, !.done = TRUE],
                 states |-> states]
          [] task.pc = 0 ->
                [task |-> [read EXCEPT
                              !.pc = 1,
                              !.media = Some(PyIndex(read.local[1].results,
                                                     task.arg))],
                 states |-> states]
          [] task.pc = 1 ->
                [task |-> [paged EXCEPT !.pc = 2,
                                        !.menu = Some(menu_of(paged, states))],
                 states |-> states]
          [] OTHER ->
                [task |-> [task EXCEPT !.pc = 3, !.done = TRUE],
                 states |-> race_menu_id(task, states, which)]

race_step(task, states, which) ==
    CASE task.kind = "search" -> race_search(task, states, which)
      [] task.kind = "page" -> race_page(task, states, which)
      [] OTHER -> race_post(task, states, which)

\* The updates that race: two searches, a page button, a post button
RaceUpdates ==
    {[kind |-> "search", arg |-> 0, query |-> <<"q">>, posts |-> PostList(6)],
     [kind |-> "search", arg |-> 0, query |-> <<"p">>, posts |-> PostList(2)],
     [kind |-> "page", arg |-> 1, query |-> <<>>, posts |-> <<>>],
     [kind |-> "post", arg |-> 1, query |-> <<>>, posts |-> <<>>]}

RaceTask(update) ==
    [kind |-> update.kind, arg |-> update.arg, query |-> update.query,
     posts |-> update.posts, pc |-> 0, done |-> FALSE, local |-> None,
     seen |-> None, page |-> 0, caption |-> None, media |-> None,
     menu |-> None]

\* The session the user holds when the two updates arrive, if any
SessionAtStart == SearchState(<<"o">>, PostList(7), 0, TotalPagesOf(PostList(7)))

InitRace ==
    /\ impl \in {"main", "refactored"}
    /\ search_states \in {EmptyDict, DictSet(EmptyDict, RaceUser, SessionAtStart)}
    /\ user_states = EmptyDict
    /\ user_files = EmptyDict
    /\ out = NoOut("start", 0, 0)
    /\ call = NoCall
    /\ returned = None
    /\ keyboards = EmptyDict
    /\ \E u1 \in RaceUpdates, u2 \in RaceUpdates :
          tasks = <<RaceTask(u1), RaceTask(u2)>>

\* The event loop resumes handler t.  The other handler's reference keeps
\* the object it pointed at when this step stored another one.
RunRace(t) ==
    /\ ~tasks[t].done
    /\ LET r == race_step(tasks[t], search_states, impl)
           other == tasks[3 - t]
           kept == IF Attached(other.local, search_states)
                      /\ ~Attached(other.local, r.states)
                   THEN [other EXCEPT !.local = Some(search_states[RaceUser])]
                   ELSE other
       IN  /\ search_states' = r.states
           /\ tasks' = [k \in 1..2 |-> IF k = t THEN r.task ELSE kept]
    /\ UNCHANGED <<impl, user_states, user_files, out, call, returned,
                   keyboards>>

NextRace == \E t \in 1..2 : RunRace(t)

SpecRace == InitRace /\ [][NextRace]_vars

\* ------------------------------------------------------------------------
\* SpecPosts: get_posts called on its own with every argument it takes
\* ------------------------------------------------------------------------

\* "if cid is not None: params['cid'] = cid" and "if post_id is not None:
\* params['id'] = post_id": a parameter that is not added is None
WithIds(params, cid, post_id) ==
    [page |-> params.page, s |-> params.s, q |-> params.q,
     limit |-> params.limit, pid |-> params.pid, tags |-> params.tags,
     cid |-> cid, id |-> post_id]

\* Variant: the fallback request is the primary one with page and s changed
get_posts_with_cid(limit, pid, tags, cid, post_id, o1, o2) ==
    LET r == get_posts(limit, pid, tags, o1, o2)
    IN  [requests |-> [i \in 1..Len(r.requests) |->
                          WithIds(r.requests[i], cid, post_id)],
         result |-> r.result]

\* BooruAPIWrapper.get_posts (main.py) with cid and post_id: the primary
\* request takes both, alt_params takes the id only
get_posts_with(limit, pid, tags, cid, post_id, o1, o2) ==
    LET r == get_posts(limit, pid, tags, o1, o2)
    IN  [requests |-> [i \in 1..Len(r.requests) |->
                          IF i = 1 THEN WithIds(r.requests[i], cid, post_id)
                          ELSE WithIds(r.requests[i], None, post_id)],
         result |-> r.result]

\* BooruRepository.get_posts with change_id and post_id
repo_get_posts_with(criteria, o1) ==
    LET r == repo_get_posts(criteria, o1)
    IN  [requests |-> <<WithIds(r.requests[1], criteria.change_id,
                                criteria.post_id)>>,
         result |-> r.result]

InitPosts ==
    /\ impl \in {"main", "refactored"}
    /\ search_states = EmptyDict
    /\ user_states = EmptyDict
    /\ user_files = EmptyDict
    /\ out = NoOut("start", 0, 0)
    /\ returned = None
    /\ tasks = <<>>
    /\ keyboards = EmptyDict
    /\ call \in [fn : {"get_posts_with"}, base : {<<>>},
                 settings : {UserSettings},
                 limit : {0, SearchLimit, MaxLimit + 1}, pid : {0, 1},
                 tags : {<<>>, <<"q">>}, cid : {None, Some(7)},
                 post_id : {None, Some(9)}, o1 : ClientOutcomes,
                 o2 : ClientFallbackOutcomes]

PostsCall ==
    /\ call.fn = "get_posts_with"
    /\ returned = None
    /\ returned' =
          IF impl = "main"
          THEN Some(get_posts_with(call.limit, call.pid, call.tags, call.cid,
                                   call.post_id, call.o1, call.o2))
          ELSE Some(repo_get_posts_with(
                        [tags |-> call.tags, limit |-> call.limit,
                         page |-> call.pid, change_id |-> call.cid,
                         post_id |-> call.post_id], call.o1))
    /\ UNCHANGED <<impl, search_states, user_states, user_files, out, call,
                   tasks, keyboards>>

NextPosts == PostsCall

SpecPosts == InitPosts /\ [][NextPosts]_vars

\* ------------------------------------------------------------------------
\* Vocabulary of the properties
\* ------------------------------------------------------------------------

\* The handler that ran was a post search (a text message outside the
\* auto-tag prompt, or "Random Image")
SearchResults == {"page", "no_images", "no_response", "invalid_format", "error"}
IsSearch(o) == o.event \in {"text", "menu_random"} /\ o.result \in SearchResults

\* The posts an upstream body carries
PostsIn(body) ==
    CASE body.t = "list" -> body.items
      [] body.t = "dict" /\ body.post # None -> body.post[1].items
      [] body.t = "dict" /\ body.post = None /\ body.posts # None ->
            body.posts[1].items
      [] OTHER -> <<>>

\* The posts the last request of a search came back with
Yielded(o) ==
    IF o.upstream = <<>> THEN <<>>
    ELSE LET last == o.upstream[Len(o.upstream)]
         IN  IF last.ok THEN PostsIn(last.body) ELSE <<>>

\* The tags parameter of the first request of a search ("" when left out)
SentTags(o) ==
    IF o.requests[1].tags = None THEN <<>> ELSE o.requests[1].tags[1]

\* ceil(n / d), from its definition
Ceil(n, d) == CHOOSE k \in 0..n : k * d >= n /\ (k - 1) * d < n

\* results[lo:hi] for 0 <= lo <= hi <= len(results)
Segment(results, lo, hi) == [i \in 1..(hi - lo) |-> results[lo + i]]

RECURSIVE ConcatPages(_, _)
ConcatPages(search_state, upto) ==
    IF upto < 0 THEN <<>>
    ELSE ConcatPages(search_state, upto - 1) \o PageSlice(search_state, upto)

\* ------------------------------------------------------------------------
\* C1
\* ------------------------------------------------------------------------

\* C1: in every reachable state every stored session with non-empty results
\* has 0 <= current_page < total_pages, whatever page numbers the
\* search_page callbacks carried.
C1_PageWithinRange ==
    \A u \in DOMAIN search_states :
        search_states[u].results # <<>> =>
            /\ 0 <= search_states[u].current_page
            /\ search_states[u].current_page < search_states[u].total_pages

\* ------------------------------------------------------------------------
\* C2
\* ------------------------------------------------------------------------

\* C2: a page-navigation request on an existing session with a page outside
\* [0, total_pages-1] returns false and leaves current_page, query, results
\* and total_pages as they were.
C2_OutOfRangeRejected ==
    [][\A u \in DOMAIN search_states :
          (/\ out'.event = "search_page"
           /\ out'.user = u
           /\ ~(0 <= out'.arg /\ out'.arg < search_states[u].total_pages))
          => /\ out'.ret # Some(TRUE)
             /\ u \in DOMAIN search_states'
             /\ search_states'[u].current_page = search_states[u].current_page
             /\ search_states'[u].query = search_states[u].query
             /\ search_states'[u].results = search_states[u].results
             /\ search_states'[u].total_pages = search_states[u].total_pages
      ]_vars

\* ------------------------------------------------------------------------
\* C3
\* ------------------------------------------------------------------------

\* C3: a page-navigation request for a user without a session returns
\* false, creates no session and leaves the session store unchanged: the
\* handler answers "No active search", and update_page itself returns False
\* with the store as it was.
C3_NoSessionNavigationIsNoop ==
    /\ [](\A u \in Users \ DOMAIN search_states : \A page \in PageArgs :
            update_page(search_states, u, page) =
                [states |-> search_states, ret |-> FALSE])
    /\ [][\A u \in Users \ DOMAIN search_states :
            (out'.event = "search_page" /\ out'.user = u)
            => /\ search_states' = search_states
               /\ out'.result = "no_active_search"
               /\ out'.ret # Some(TRUE)
        ]_vars

C3_Witness ==
    /\ out.event = "search_page"
    /\ out.user \notin DOMAIN search_states
    /\ out.result = "no_active_search"

\* ------------------------------------------------------------------------
\* C4
\* ------------------------------------------------------------------------

\* C4: after a search that found at least one post the user's session is
\* the new one in every field: the results are the posts upstream returned
\* for this search, the query is the one of this search (as typed or as
\* sent), the page is 0 and the page count is that of the new results.
\* (One session per user holds by construction: the store is keyed by user.)
C4_SearchReplacesSession ==
    (IsSearch(out) /\ out.result = "page") =>
        /\ out.user \in DOMAIN search_states
        /\ DOMAIN search_states \subseteq Users
        /\ LET s == search_states[out.user]
           IN  /\ s.results = Yielded(out)
               /\ s.results # <<>>
               /\ s.query \in {out.text, SentTags(out)}
               /\ s.current_page = 0
               /\ s.total_pages = Ceil(Len(Yielded(out)), 5)
               /\ s.posts_per_page = 5
               /\ out.page = 0

C4_Witness ==
    /\ IsSearch(out)
    /\ out.result = "page"
    /\ out.user \in DOMAIN search_states
    /\ Len(search_states[out.user].results) = 3

\* ------------------------------------------------------------------------
\* C5
\* ------------------------------------------------------------------------

\* C5: every stored session has posts_per_page = 5 and
\* total_pages = ceil(len(results) / 5) >= 1, in every reachable state.
C5_TotalPagesIsCeil ==
    \A u \in DOMAIN search_states :
        /\ search_states[u].posts_per_page = 5
        /\ search_states[u].total_pages =
              Ceil(Len(search_states[u].results), 5)
        /\ search_states[u].total_pages >= 1

C5_Witness ==
    \E u \in DOMAIN search_states :
        /\ Len(search_states[u].results) = 5
        /\ search_states[u].current_page # 0

\* ------------------------------------------------------------------------
\* C6
\* ------------------------------------------------------------------------

\* C6: for every session and every page p in [0, total_pages-1] the page
\* slice is results[5p : min(5p+5, len)], holds 1 to 5 posts, and the slices
\* of pages 0..total_pages-1 concatenated are the results; a page rendered
\* for such a p shows that slice.
C6_PageSlices ==
    \A u \in DOMAIN search_states :
        LET s == search_states[u]
            n == Len(s.results)
        IN  /\ \A p \in 0..(s.total_pages - 1) :
                  /\ PageSlice(s, p) =
                        Segment(s.results, 5 * p, Min(5 * p + 5, n))
                  /\ Len(PageSlice(s, p)) \in 1..5
            /\ ConcatPages(s, s.total_pages - 1) = s.results
            /\ (/\ out.result = "page"
                /\ out.user = u
                /\ out.page \in 0..(s.total_pages - 1))
               => out.posts = Segment(s.results, 5 * out.page,
                                      Min(5 * out.page + 5, n))

C6_Witness ==
    \E u \in DOMAIN search_states :
        /\ Len(search_states[u].results) = 12
        /\ search_states[u].total_pages = 3
        /\ out.result = "page"
        /\ out.event = "search_page"
        /\ out.page = 2
        /\ out.posts = <<search_states[u].results[11],
                         search_states[u].results[12]>>

\* ------------------------------------------------------------------------
\* C7
\* ------------------------------------------------------------------------

\* C7: selecting a post by absolute index i sends results[i] when
\* 0 <= i < len(results); for every other i, and for a user without a
\* session, the answer is "Media not found", no media is sent and nothing
\* is raised.
C7_SelectPost ==
    out.event = "post" =>
        IF /\ out.user \in DOMAIN search_states
           /\ 0 <= out.arg
           /\ out.arg < Len(search_states[out.user].results)
        THEN /\ out.result = "media"
             /\ out.post = Some(search_states[out.user].results[out.arg + 1])
        ELSE /\ out.result = "not_found"
             /\ out.post = None

\* ------------------------------------------------------------------------
\* C8
\* ------------------------------------------------------------------------

\* C8: a search that yields zero posts creates no session: a user without a
\* session before it has none after it.
C8_EmptySearchCreatesNoSession ==
    [][\A u \in Users \ DOMAIN search_states :
          (IsSearch(out') /\ out'.user = u /\ Yielded(out') = <<>>)
          => u \notin DOMAIN search_states'
      ]_vars

C8_Witness ==
    /\ IsSearch(out)
    /\ out.result = "no_images"
    /\ Yielded(out) = <<>>
    /\ out.user \notin DOMAIN search_states

\* ------------------------------------------------------------------------
\* C9
\* ------------------------------------------------------------------------

\* C9: the query stored in a session is the composed tag string that was
\* sent upstream for that search, not the text the user typed.
C9_StoredQueryIsComposed ==
    (IsSearch(out) /\ out.result = "page") =>
        /\ out.user \in DOMAIN search_states
        /\ search_states[out.user].query = SentTags(out)

\* ------------------------------------------------------------------------
\* C10
\* ------------------------------------------------------------------------

\* The parts the composition joins: base when non-empty, the auto-tags in
\* stored order, the rules whose value is true in mapping order
ComposeParts(base, settings) ==
    (IF base # <<>> THEN <<base>> ELSE <<>>)
    \o settings.auto_tags
    \o [i \in 1..Cardinality({k \in 1..Len(settings.toggle_rules) :
                                settings.toggle_rules[k].enabled}) |->
          settings.toggle_rules[
              CHOOSE k \in 1..Len(settings.toggle_rules) :
                  /\ settings.toggle_rules[k].enabled
                  /\ Cardinality({j \in 1..k :
                        settings.toggle_rules[j].enabled}) = i].rule]

C11_FallbackPostsReturned ==
    (IsSearch(out) /\ ~out.upstream[1].ok) =>
        /\ Len(out.requests) = 2
        /\ out.upstream[2].ok =>
              IF PostsIn(out.upstream[2].body) # <<>>
              THEN /\ out.result = "page"
                   /\ out.user \in DOMAIN search_states
                   /\ search_states[out.user].results =
                          PostsIn(out.upstream[2].body)
              ELSE out.result = "no_images"

\* ------------------------------------------------------------------------
\* C12
\* ------------------------------------------------------------------------

\* C12: a post search all of whose upstream requests failed ends as a
\* search without matches does: the user is told "no images found", and no
\* error is shown.
C12_AllFailedIsNoImages ==
    (IsSearch(out) /\ \A i \in 1..Len(out.upstream) : ~out.upstream[i].ok)
        => out.result = "no_images"

\* ------------------------------------------------------------------------
\* C13
\* ------------------------------------------------------------------------

\* C13: one post search sends one or two requests upstream; the first is in
\* the primary format; a second one is sent only after the first has failed,
\* is in the fallback format with the same tags, limit and pid, and nothing
\* is sent after it.
C13_AtMostPrimaryThenFallback ==
    IsSearch(out) =>
        /\ Len(out.requests) \in 1..2
        /\ Len(out.upstream) = Len(out.requests)
        /\ out.requests[1].page = "dapi"
        /\ out.requests[1].s = "post"
        /\ out.requests[1].q = Some("index")
        /\ Len(out.requests) = 2 =>
              /\ ~out.upstream[1].ok
              /\ out.requests[2].page = "post"
              /\ out.requests[2].s = "list"
              /\ out.requests[2].q = None
              /\ out.requests[2].tags = out.requests[1].tags
              /\ out.requests[2].limit = out.requests[1].limit
              /\ out.requests[2].pid = out.requests[1].pid

C13_Witness ==
    /\ IsSearch(out)
    /\ Len(out.requests) = 2
    /\ ~out.upstream[1].ok
    /\ ~out.upstream[2].ok

\* ------------------------------------------------------------------------
\* C14
\* ------------------------------------------------------------------------

\* C14: a post search whose primary request came back without a failure
\* sends no second request, whatever the shape of the reply.
C14_NoFallbackOnShape ==
    (IsSearch(out) /\ out.upstream[1].ok) => Len(out.requests) = 1

C14_Witness ==
    /\ IsSearch(out)
    /\ impl = "main"
    /\ out.upstream[1].ok
    /\ out.upstream[1].body = JNull
    /\ Len(out.requests) = 1

\* ------------------------------------------------------------------------
\* C15
\* ------------------------------------------------------------------------

\* C15: a post search whose last request (primary or fallback) succeeded
\* ends with the posts of the reply as a list: a bare list, a list or a
\* single object under 'post', or the value of 'posts' become the results
\* of the session; a reply without posts (null, a scalar, an empty list)
\* ends without a session being shown and without an error.
C15_EveryShapeGivesList ==
    (IsSearch(out) /\ out.upstream[Len(out.upstream)].ok) =>
        IF Yielded(out) # <<>>
        THEN /\ out.result = "page"
             /\ out.user \in DOMAIN search_states
             /\ search_states[out.user].results = Yielded(out)
        ELSE out.result \notin {"page", "error"}

\* ------------------------------------------------------------------------
\* C16
\* ------------------------------------------------------------------------

\* The handler that ran was a tag lookup with a query
IsLookup(o) == o.event = "tags" /\ o.result # "usage"

\* The tags an upstream body carries, and those a request came back with
TagsIn(body) ==
    CASE body.t = "list" -> body.items
      [] body.t = "dict" /\ body.tag # None -> body.tag[1].items
      [] body.t = "dict" /\ body.tag = None /\ body.tags # None ->
            body.tags[1].items
      [] OTHER -> <<>>

TagsOf(outcome) == IF outcome.ok THEN TagsIn(outcome.body) ELSE <<>>

\* C16: a tag request that fails counts as an empty tag list: the lookup
\* shows no error, ends as "no tags found" when the failed request was its
\* last one, and every request it sends is in the one format of the tag
\* endpoint.
C16_FailedTagSearchIsEmpty ==
    IsLookup(out) =>
        /\ \A i \in 1..Len(out.requests) :
              out.requests[i].page = "dapi" /\ out.requests[i].s = "tag"
        /\ \A i \in 1..Len(out.upstream) :
              ~out.upstream[i].ok =>
                  /\ out.result # "error"
                  /\ i = Len(out.upstream) => out.result = "no_tags"

\* ------------------------------------------------------------------------
\* C17
\* ------------------------------------------------------------------------

\* C17: a tag lookup sends the exact-name request first, and a pattern
\* request is sent if and only if that request gave zero tags and the
\* query has at least 3 characters; no lookup sends more than two requests.
C17_PatternIffEmptyExact ==
    IsLookup(out) =>
        /\ Len(out.requests) \in 1..2
        /\ out.requests[1].name = Some(out.text)
        /\ out.requests[1].tags = None
        /\ (Len(out.requests) = 2) <=>
              (TagsOf(out.upstream[1]) = <<>> /\ Len(out.text) >= 3)
        /\ Len(out.requests) = 2 =>
              out.requests[2].tags # None /\ out.requests[2].name = None

\* ------------------------------------------------------------------------
\* C18
\* ------------------------------------------------------------------------

\* C18: a lookup whose exact-name request gave tags shows exactly those and
\* sends nothing more; a lookup that goes on to the pattern request sends
\* the pattern '%' + query + '%' without a name filter, and what that
\* request gives, tags or none, is the result.
C18_ExactElsePattern ==
    (IsLookup(out) /\ out.requests[1].name # None) =>
        /\ TagsOf(out.upstream[1]) # <<>> =>
              /\ Len(out.requests) = 1
              /\ out.result = "tags"
              /\ out.posts = TagsOf(out.upstream[1])
        /\ Len(out.requests) = 2 =>
              /\ out.requests[2].tags = Some(<<"%">> \o out.text \o <<"%">>)
              /\ out.requests[2].name = None
              /\ out.upstream[2].ok =>
                    /\ out.posts = TagsOf(out.upstream[2])
                    /\ out.result = IF TagsOf(out.upstream[2]) = <<>>
                                    THEN "no_tags" ELSE "tags"

C18_Witness ==
    /\ IsLookup(out)
    /\ out.text = <<"a", "b", "c">>
    /\ Len(out.requests) = 2
    /\ out.requests[2].tags = Some(<<"%", "a", "b", "c", "%">>)
    /\ out.result = "tags"
    /\ Len(out.posts) = 2

\* ------------------------------------------------------------------------
\* C19
\* ------------------------------------------------------------------------

\* C19: in every reachable state no stored auto_tags list holds a tag
\* twice; adding a tag that is present returns false without writing, and
\* the handler that turned a tag away as already present left every
\* settings file as it was.
C19_NoDuplicateAutoTags ==
    /\ [](\A u \in DOMAIN user_files :
            Distinct(user_files[u].settings.auto_tags))
    /\ [](\A u \in DOMAIN user_files :
            \A k \in 1..Len(get_user_settings(user_files, u).auto_tags) :
                \A disk \in DiskOutcomes :
                    add_auto_tag(user_files, u,
                        get_user_settings(user_files, u).auto_tags[k],
                        disk) =
                        [files |-> user_files, ret |-> FALSE,
                         raised |-> FALSE, wrote |-> FALSE])
    /\ [][out'.result = "duplicate" => user_files' = user_files]_vars

C19_Witness ==
    /\ out.result = "duplicate"
    /\ out.user \in DOMAIN user_files
    /\ Len(get_user_settings(user_files, out.user).auto_tags) = 2

\* ------------------------------------------------------------------------
\* C20
\* ------------------------------------------------------------------------

\* C20: a settings mutation whose write failed never ends with the user
\* being told that the change was made.
C20_FailedWriteNotReportedDone ==
    out.saved = Some(FALSE) =>
        out.result \notin {"added", "removed", "toggled", "cleared"}

\* ------------------------------------------------------------------------
\* C21
\* ------------------------------------------------------------------------

\* C21: a read of a user's settings whose file is missing or cannot be
\* unpickled gives the default settings, with either reader, and no handler
\* raises unless its write failed.
C21_ReadNeverFails ==
    /\ \A u \in Users :
          (u \in DOMAIN user_files => ~user_files[u].readable) =>
              /\ load_user_settings(user_files, u) = UserSettings
              /\ get_user_settings(user_files, u) = UserSettings
    /\ out.result = "raised" => out.saved = Some(FALSE)

C21_Witness ==
    /\ out.user \in DOMAIN user_files
    /\ ~user_files[out.user].readable
    /\ user_files[out.user].settings # UserSettings
    /\ out.saved = Some(FALSE)

\* ------------------------------------------------------------------------
\* C22
\* ------------------------------------------------------------------------

\* The settings a mutation that ended with result leaves, given the
\* settings before it
MutatedBy(result, arg, ret, before) ==
    CASE result = "added" ->
            {[before EXCEPT !.auto_tags = Append(@, strip(text))] :
                text \in TagMessages}
      [] result = "removed" ->
            {[before EXCEPT !.auto_tags = PyPop(@, arg)]}
      [] result = "cleared" -> {[before EXCEPT !.auto_tags = <<>>]}
      [] result = "toggled" ->
            {[before EXCEPT !.toggle_rules =
                                dict_set(@, rule, ~dict_get(@, rule, FALSE))] :
                rule \in Rules}
      [] result = "rule_set" ->
            {[before EXCEPT !.toggle_rules = dict_set(@, rule, ret[1])] :
                rule \in Rules}
      [] result = "rules_cleared" -> {[before EXCEPT !.toggle_rules = <<>>]}
      [] result = "reset" -> {UserSettings}
      [] OTHER -> {}

Mutations ==
    {"added", "removed", "cleared", "toggled", "rule_set", "rules_cleared",
     "reset"}

\* C22: after a settings mutation that told its caller it was done, a read
\* of the user's settings gives exactly the mutated settings.
C22_SuccessIsPersisted ==
    [][out'.result \in Mutations =>
          get_user_settings(user_files', out'.user) \in
              MutatedBy(out'.result, out'.arg, out'.ret,
                        get_user_settings(user_files, out'.user))]_vars

\* ------------------------------------------------------------------------
\* C23
\* ------------------------------------------------------------------------

\* C23: a delete that did not raise returned true exactly when the user's
\* file existed; after it the user does not exist, a read gives the
\* defaults and a further delete returns false.
C23_DeleteOnce ==
    [][(out'.event = "delete" /\ out'.result # "raised") =>
          /\ out'.ret = Some(user_exists(user_files, out'.user))
          /\ ~user_exists(user_files', out'.user)
          /\ get_user_settings(user_files', out'.user) = UserSettings
          /\ \A disk \in RemoveOutcomes :
                delete_user(user_files', out'.user, disk) =
                    [files |-> user_files', ret |-> FALSE,
                     raised |-> FALSE]]_vars

C23_Witness ==
    /\ out.event = "delete"
    /\ out.result = "deleted"
    /\ out.ret = Some(TRUE)
    /\ ~user_exists(user_files, out.user)

\* ------------------------------------------------------------------------
\* C24
\* ------------------------------------------------------------------------

\* What a dictionary keyed by user id holds for a user
Held(d, u) == IF u \in DOMAIN d THEN Some(d[u]) ELSE None

Alone(m, settings) == Modify([NewTask(m) EXCEPT !.settings = settings]).settings

AllDone == \A t \in 1..Len(tasks) : tasks[t].pc = Len(StepsOf(tasks[t].kind))

NoAwaitInside(steps) ==
    \A i \in 1..Len(steps), k \in 1..Len(steps) :
        (i < k /\ steps[i] = "load" /\ steps[k] = "save") =>
            \A j \in i..k : steps[j] # "await"

\* C25: no handler that changes settings has an await between its load
\* and its save, and when two such handlers have run to their ends,
\* interleaved at their awaits in any way, the settings are those of the
\* one mutation applied after the other.
C25_NoLostUpdate ==
    /\ \A kind \in {"toggle", "remove", "add"} : NoAwaitInside(StepsOf(kind))
    /\ (Len(tasks) = 2 /\ AllDone) =>
          \E first \in 1..2 :
              get_user_settings(user_files, 1) =
                  Alone(tasks[3 - first],
                        Alone(tasks[first], call.settings))

C25_Witness ==
    /\ Len(tasks) = 2
    /\ AllDone
    /\ tasks[1].kind = "toggle"
    /\ tasks[2].kind = "add"
    /\ get_user_settings(user_files, 1) =
          [auto_tags |-> <<<<"a">>>>,
           toggle_rules |-> dict_set(<<>>, <<"r">>, TRUE)]

\* ------------------------------------------------------------------------
\* C26
\* ------------------------------------------------------------------------

\* C26: every request a post search sent, primary or fallback, carries a
\* limit between 1 and 100, whatever limit was asked for.
C26_LimitWithinRange ==
    (call.fn = "get_posts" /\ returned # None) =>
        \A i \in 1..Len(returned[1].sent) :
            returned[1].sent[i].params.limit \in 1..MaxLimit

\* ------------------------------------------------------------------------
\* C27
\* ------------------------------------------------------------------------

\* C27: every request sent carries api_key and user_id together or
\* neither, and carries them, as configured, exactly when both are
\* configured and non-empty.
C27_AuthBothOrNeither ==
    (call.fn \in Methods /\ returned # None) =>
        \A i \in 1..Len(returned[1].sent) :
            LET auth == returned[1].sent[i].auth
                both == StrTruthy(call.api_key) /\ StrTruthy(call.user_id)
            IN  /\ (auth.api_key = None) <=> (auth.user_id = None)
                /\ (auth.api_key # None) <=> both
                /\ both => /\ auth.api_key = call.api_key
                           /\ auth.user_id = call.user_id

C27_Witness ==
    /\ call.fn = "get_posts"
    /\ returned # None
    /\ Len(returned[1].sent) = 2
    /\ call.api_key = Some(<<"k">>)
    /\ call.user_id = Some(<<"k">>)
    /\ returned[1].sent[2].auth.api_key = Some(<<"k">>)

\* ------------------------------------------------------------------------
\* C29
\* ------------------------------------------------------------------------

\* The condition an exception stands for, to the caller of the client
Condition(raised) ==
    CASE raised = "none" -> "none"
      [] raised \in {"RepositoryConnectionException", "ClientConnectionError"}
            -> "connection failure"
      [] raised \in {"RepositoryDataException", "ClientResponseError"}
            -> "upstream error"
      [] OTHER -> "unexpected failure"

\* C29: a call whose request failed reaches its caller as a connection
\* failure when the host was not reached, as an upstream error when the
\* status was outside 2xx, and as an unexpected failure otherwise, whichever
\* of the four methods was called.
C29_FailureKinds ==
    (call.fn \in Methods /\ returned # None /\ ~call.o1.ok) =>
        Condition(returned[1].raised) =
            CASE call.o1.err = "conn" -> "connection failure"
              [] call.o1.err = "http" -> "upstream error"
              [] OTHER -> "unexpected failure"

\* ------------------------------------------------------------------------
\* C28
\* ------------------------------------------------------------------------

\* The part of a session that only a search sets
Searched(state) ==
    [query |-> state.query, results |-> state.results,
     total_pages |-> state.total_pages]

AfterLastDot(url) ==
    LET dots == {k \in 1..Len(url) : url[k] = "."}
    IN  IF dots = {} THEN <<>>
        ELSE SubSeq(url, (CHOOSE k \in dots : \A j \in dots : j <= k) + 1,
                    Len(url))

\* C30: the media type of every URL is "video" when the text after its
\* last '.' is "mp4" in any case, "gif" when it is "gif", and "image"
\* otherwise, a URL without '.' and the empty URL included.
C30_MediaType ==
    (call.fn = "get_media_type" /\ returned # None) =>
        returned[1] =
            CASE lower(AfterLastDot(call.base)) = <<"m", "p", "4">> -> "video"
              [] lower(AfterLastDot(call.base)) = <<"g", "i", "f">> -> "gif"
              [] OTHER -> "image"

C30_Witness ==
    /\ call.fn = "get_media_type"
    /\ call.base = <<".", ".", "M", "p", "4">>
    /\ returned = Some("video")

\* ------------------------------------------------------------------------
\* C31
\* ------------------------------------------------------------------------

\* C31: every request after the primary one has page=post, s=list and no
\* q, carries the tags, limit, pid and id of the primary request as they
\* were sent in it, and carries no cid.
C31_FallbackParams ==
    (call.fn = "get_posts_with" /\ returned # None) =>
        \A i \in 2..Len(returned[1].requests) :
            LET primary == returned[1].requests[1]
                fallback == returned[1].requests[i]
            IN  /\ fallback.page = "post"
                /\ fallback.s = "list"
                /\ fallback.q = None
                /\ fallback.tags = primary.tags
                /\ fallback.limit = primary.limit
                /\ fallback.pid = primary.pid
                /\ fallback.id = primary.id
                /\ fallback.cid = None

C31_Witness ==
    /\ call.fn = "get_posts_with"
    /\ returned # None
    /\ Len(returned[1].requests) = 2
    /\ returned[1].requests[1].cid = Some(7)
    /\ returned[1].requests[1].id = Some(9)
    /\ returned[1].requests[2].id = Some(9)
    /\ returned[1].requests[2].tags = Some(<<"q">>)
    /\ returned[1].requests[2].pid = 1

\* ------------------------------------------------------------------------
\* C32
\* ------------------------------------------------------------------------

\* Two handlers left the same sessions (query, results, current_page,
\* total_pages), input modes and settings, and sent the same requests
SameOutcome(a, b) ==
    /\ DOMAIN a.search_states = DOMAIN b.search_states
    /\ \A u \in DOMAIN a.search_states :
          /\ Searched(a.search_states[u]) = Searched(b.search_states[u])
          /\ a.search_states[u].current_page = b.search_states[u].current_page
    /\ a.user_states = b.user_states
    /\ a.user_files = b.user_files
    /\ a.out.requests = b.out.requests

\* C32: from every state either implementation reaches, the same update
\* with the same upstream replies and failures leaves both implementations
\* with the same sessions, settings and input modes, having sent the same
\* upstream requests.
C32_SameBehaviour ==
    \A u \in Actors, o1 \in Outcomes, m \in MessageIds :
        \A o2 \in {Reply(b) : b \in FallbackBodies} :
            /\ \A text \in Messages :
                  SameOutcome(
                      handle_text_input(State, u, text, o1, o2, m),
                      r_handle_text_input(State, u, text, o1, m))
            /\ \A kind \in {"search_page", "post", "menu_random"},
                  n \in PageArgs :
                  SameOutcome(
                      handle_callback_query(State, u, Data(kind, n, <<>>),
                                            o1, o2, m),
                      r_handle_callback_query(State, u, Data(kind, n, <<>>),
                                              o1, m))

\* ------------------------------------------------------------------------
\* C33
\* ------------------------------------------------------------------------

\* after is before with its element at the 0-based index gone and the
\* others in their order
RemovedAt(before, after, index) ==
    /\ 0 <= index /\ index < Len(before)
    /\ Len(after) = Len(before) - 1
    /\ \A k \in 1..Len(after) :
          after[k] = IF k <= index THEN before[k] ELSE before[k + 1]

\* C33: a stored auto_tags list keeps insertion order: an addition that
\* succeeded left the list as it was with the new tag last; a removal by
\* index that succeeded took out exactly the element at that index and
\* kept the others in order; a removal with an index outside
\* [0, len - 1] returns false, writes nothing and leaves every file alone.
C33_AutoTagsKeepOrder ==
    /\ [][(out'.result = "added" /\ out'.saved = Some(TRUE)) =>
            LET before == get_user_settings(user_files, out'.user).auto_tags
                after == get_user_settings(user_files', out'.user).auto_tags
            IN  /\ Len(after) = Len(before) + 1
                /\ SubSeq(after, 1, Len(before)) = before
                /\ ~InList(after[Len(after)], before)]_vars
    /\ [][(out'.result = "removed" /\ out'.saved = Some(TRUE)) =>
            RemovedAt(get_user_settings(user_files, out'.user).auto_tags,
                      get_user_settings(user_files', out'.user).auto_tags,
                      out'.arg)]_vars
    /\ [][(/\ out'.event = "autotag_remove"
           /\ ~(/\ 0 <= out'.arg
                /\ out'.arg < Len(get_user_settings(user_files,
                                       out'.user).auto_tags))) =>
            user_files' = user_files]_vars
    /\ [](\A u \in Users, index \in RemoveArgs, disk \in DiskOutcomes :
            (index < 0
             \/ index >= Len(get_user_settings(user_files, u).auto_tags)) =>
                remove_auto_tag_by_index(user_files, u, index, disk) =
                    [files |-> user_files, ret |-> FALSE, raised |-> FALSE,
                     wrote |-> FALSE])

\* The first of two stored tags was removed and the second is what is left
C33_Witness ==
    /\ out.event = "autotag_remove"
    /\ out.result = "removed"
    /\ out.saved = Some(TRUE)
    /\ out.arg = 0
    /\ get_user_settings(user_files, out.user).auto_tags = <<<<"b">>>>

\* ------------------------------------------------------------------------
\* C34
\* ------------------------------------------------------------------------

\* The fields of a session a search sets
SessionOf(state) ==
    [query |-> state.query, results |-> state.results,
     current_page |-> state.current_page, total_pages |-> state.total_pages]

\* C34: a search that yielded no posts or ended without a page of results,
\* made by a user who holds a session, leaves that session's query,
\* results, current_page and total_pages as they were.
C34_FailedSearchKeepsSession ==
    [][\A u \in DOMAIN search_states :
          (/\ IsSearch(out')
           /\ out'.user = u
           /\ (Yielded(out') = <<>> \/ out'.result # "page"))
          => (/\ u \in DOMAIN search_states'
              /\ SessionOf(search_states'[u]) = SessionOf(search_states[u]))
      ]_vars

\* A user on the second page of a session searched and the request failed
C34_Witness ==
    /\ IsSearch(out)
    /\ out.result \in {"error", "no_images"}
    /\ out.upstream # <<>>
    /\ ~out.upstream[1].ok
    /\ out.user \in DOMAIN search_states
    /\ search_states[out.user].current_page = 1

\* ------------------------------------------------------------------------
\* C35
\* ------------------------------------------------------------------------

\* The targets of the buttons of one kind on a keyboard
Targets(keyboard, kind) ==
    {keyboard[i].n : i \in {j \in 1..Len(keyboard) : keyboard[j].kind = kind}}

\* A keyboard sent with page of a session offers "Previous" exactly when
\* page > 0, for page - 1, "Next" exactly when page < total_pages - 1, for
\* page + 1, and post buttons only for indexes of the posts on the page
ValidKeyboard(keyboard, state, page) ==
    /\ Targets(keyboard, "search_page") =
          (IF page > 0 THEN {page - 1} ELSE {})
          \cup (IF page < state.total_pages - 1 THEN {page + 1} ELSE {})
    /\ \A i \in Targets(keyboard, "post") :
          /\ PostsPerPage * page <= i
          /\ i <= Min(PostsPerPage * page + PostsPerPage,
                      Len(state.results)) - 1

\* C35: every keyboard sent with a page of results is valid for the page
\* it was sent with, whatever page is asked for; and users who press only
\* buttons they were sent for their current session stay on pages
\* 0..total_pages-1, are always shown the posts of the page they asked
\* for, and always get the post of the button they pressed.
C35_ButtonsAreValid ==
    /\ (out.keyboard # <<>>) =>
          ValidKeyboard(out.keyboard, search_states[out.user],
                        IF out.result = "page" THEN out.page
                        ELSE search_states[out.user].current_page)
    /\ \A u \in DOMAIN search_states, page \in PageArgs :
          ValidKeyboard(selection_keyboard(search_states[u], page),
                        search_states[u], page)
    /\ \A u \in DOMAIN search_states :
          /\ 0 <= search_states[u].current_page
          /\ search_states[u].current_page < search_states[u].total_pages
    /\ (out.event = "search_page") =>
          /\ out.result = "page"
          /\ out.page = search_states[out.user].current_page
          /\ out.posts # <<>>
    /\ (out.event = "post") =>
          /\ 0 <= out.arg
          /\ out.arg < Len(search_states[out.user].results)
          /\ out.result = "media"
          /\ out.post = Some(search_states[out.user].results[out.arg + 1])

\* "Next" was pressed twice: the last of three pages is shown, with
\* "Previous" and without "Next", and a button for its only post
C35_Witness ==
    /\ out.event = "search_page"
    /\ out.page = 2
    /\ search_states[out.user].total_pages = 3
    /\ Targets(out.keyboard, "search_page") = {1}
    /\ Targets(out.keyboard, "post") = {10}

\* ------------------------------------------------------------------------
\* C36
\* ------------------------------------------------------------------------

\* C36: a text message is taken as an auto tag only when its sender was
\* waiting at the prompt, and the prompt is pending only right after "Add
\* New Auto Tag": every other update the bot serves for a user (any other
\* button, any text message) leaves that user in search mode.
C36_PromptEndsWithNextUpdate ==
    /\ [][(out'.event = "text" /\ ~IsSearch(out')) =>
            (/\ out'.user \in DOMAIN user_states
             /\ user_states[out'.user] = WAITING_FOR_AUTOTAG)]_vars
    /\ [][(out' # out /\ out'.event # "autotag_add") =>
            out'.user \notin DOMAIN user_states']_vars

\* ------------------------------------------------------------------------
\* C37
\* ------------------------------------------------------------------------

\* The rules a toggle_rules mapping has enabled
EnabledSet(d) == {d[k].rule : k \in {j \in 1..Len(d) : d[j].enabled}}

\* C37: a toggle answers the state it stored for the rule; the first toggle
\* of a rule the settings did not hold enables it; after two toggles of one
\* rule the enabled rules are those before the first, and every base query
\* composes to what it composed to before, with either composition.
C37_ToggleTwiceRestores ==
    LET stored == get_user_settings(user_files, 1)
        start == call.settings
        rule == call.base
    IN  (call.fn = "toggle_rule") =>
        /\ (Len(returned) >= 1) =>
              /\ returned[Len(returned)] =
                    dict_get(stored.toggle_rules, rule, FALSE)
              /\ out.ret = Some(returned[Len(returned)])
              /\ (\A k \in 1..Len(start.toggle_rules) :
                      start.toggle_rules[k].rule # rule) => returned[1]
        /\ (Len(returned) = 2) =>
              /\ EnabledSet(stored.toggle_rules) =
                    EnabledSet(start.toggle_rules)
              /\ stored.auto_tags = start.auto_tags
              /\ \A b \in BaseStrings :
                    /\ apply_user_preferences(b, stored) =
                          apply_user_preferences(b, start)
                    /\ inline_apply_preferences(strip(b), stored) =
                          inline_apply_preferences(strip(b), start)

\* A rule the settings did not hold was toggled twice: its key is left
\* behind with false, next to a rule that is enabled
C37_Witness ==
    /\ call.fn = "toggle_rule"
    /\ call.base = <<"y">>
    /\ returned = <<TRUE, FALSE>>
    /\ get_user_settings(user_files, 1).toggle_rules =
          <<[rule |-> <<"s">>, enabled |-> TRUE],
            [rule |-> <<"y">>, enabled |-> FALSE]>>

\* ------------------------------------------------------------------------
\* C38
\* ------------------------------------------------------------------------

\* C38: after a write of a user's settings that failed, a read gives that
\* user the settings a read gave before the write, with either reader.
C38_FailedWriteKeepsSettings ==
    [][(out'.saved = Some(FALSE)) =>
          /\ get_user_settings(user_files', out'.user) =
                get_user_settings(user_files, out'.user)
          /\ load_user_settings(user_files', out'.user) =
                load_user_settings(user_files, out'.user)]_vars

\* ------------------------------------------------------------------------
\* C39
\* ------------------------------------------------------------------------

\* The sessions a search can have stored: the one held at the start and
\* one for each search in flight that has stored its own
Origins ==
    {Searched(SessionAtStart)}
    \cup {[query |-> tasks[t].query, results |-> tasks[t].posts,
           total_pages |-> TotalPagesOf(tasks[t].posts)] :
             t \in {k \in 1..Len(tasks) : tasks[k].kind = "search"}}

C40_ReadsLeaveStoreAlone ==
    /\ [](\A u \in Users :
            (u \notin DOMAIN user_files) =>
                /\ get_user_settings(user_files, u) =
                      [auto_tags |-> <<>>, toggle_rules |-> <<>>]
                /\ load_user_settings(user_files, u) =
                      [auto_tags |-> <<>>, toggle_rules |-> <<>>]
                /\ ~user_exists(user_files, u))
    /\ [][(out'.saved = None) => (user_files' = user_files)]_vars
    /\ [][\A u \in Users :
            (~user_exists(user_files, u) /\ user_exists(user_files', u)) =>
                (out'.user = u /\ out'.saved = Some(TRUE))]_vars

====
